---------------------------- MODULE Spec2Model ----------------------------
(***************************************************************************)
(* Model of the read-only query admission path of mysql-mcp-server:        *)
(* QuerySanitizer (src/src/utils/QuerySanitizer.ts) and the part of        *)
(* ExecuteQueryTool.execute (src/unnamed/part_002) that decides which text *)
(* is handed to the database.                                              *)
(*                                                                         *)
(* A query is a TLA+ string.  The sanitizer's functions work on the        *)
(* sequence of its characters (Chars) exactly as the JavaScript code works *)
(* on string indexes; Str converts a character sequence back.              *)
(*                                                                         *)
(* Further down: the three tools and what they return (SpecTools), the     *)
(* order of the sanitizer's checks (SpecOrder), the index rows of          *)
(* describe_table (SpecIndexes), the connection manager MySQLManager       *)
(* (SpecManager), the proxy supervisor CloudSQLProxy (SpecProxy), the      *)
(* shutdown handlers of config.ts (SpecShutdown) and the binary resolver   *)
(* BinaryManager (SpecBinary).                                             *)
(***************************************************************************)
EXTENDS Integers, Sequences, FiniteSets, TLC

VARIABLES
    query,       \* input.query of the call being served
    limit,       \* input.limit as execute read it (NoLimit: not given, or not read)
    pc,          \* "ready": call issued; "done": the call has returned
    result,      \* the SanitizationResult of the call (NoResult before)
    sent,        \* text handed to mysqlManager.executeQuery (NotSent if none)
    lastIndex,   \* lastIndex of every static RegExp object of QuerySanitizer
    history,     \* the calls of sanitize made so far: input and result of each
    tool,        \* the tool that was invoked
    table,       \* input.table of a describe_table call
    dbCall,      \* promise of mysqlManager.executeQuery: none, pending, settled
    timer,       \* the timeout timer of execute_query: none, armed, fired
    replies,     \* how the database calls of this invocation settled, in order
    response,    \* what the tool returned to its caller (NoResponse before)
    config,      \* config.cloudSqlProxy: enabled, instanceConnectionName
    manager,     \* the MySQLManager singleton: its fields pool and cloudSqlProxy
    proxies,     \* the CloudSQLProxy objects: process, isRunning, lastError
    procs,       \* the subprocesses spawned, with the locals of their start()
    pools,       \* the pools mysql.createPool has made
    tasks,       \* the calls in progress: operation, await reached, outcome
    exited,      \* the code given to process.exit ("none" while the server runs)
    host,        \* process.platform and process.arch of the machine
    files,       \* the binary's final path, its temporary sibling, the directory
    requests,    \* the https requests downloadFile has issued, in order
    ensure       \* the call of ensureBinary: options, await reached, result

toolVars == <<query, limit, pc, result, sent, lastIndex, history,
              tool, table, dbCall, timer, replies, response>>

infra == <<config, manager, proxies, procs, pools, tasks, exited>>

binVars == <<host, files, requests, ensure>>

vars == <<toolVars, infra, binVars>>

\* the number of calls that may be in progress together
MaxTasks == 2

TaskIds == 1 .. MaxTasks

Null == 0

\* a call that has not been made yet
Idle ==
    [op |-> "none", pc |-> "idle", obj |-> Null, proc |-> Null, pool |-> Null,
     after |-> "return", outcome |-> "none", returned |-> Null, first |-> FALSE,
     event |-> "none"]

\* the objects of a server that has served no call yet
InfraIdle ==
    /\ config = [enabled |-> FALSE, instanceConnectionName |-> ""]
    /\ manager = [pool |-> Null, cloudSqlProxy |-> Null]
    /\ proxies = <<>>
    /\ procs = <<>>
    /\ pools = <<>>
    /\ tasks = [t \in TaskIds |-> Idle]
    /\ exited = "none"

\* a machine on which ensureBinary has not been called
BinaryIdle ==
    /\ host = [platform |-> "linux", arch |-> "x64"]
    /\ files = [final |-> "executable", temp |-> "absent", mkdir |-> FALSE]
    /\ requests = <<>>
    /\ ensure = [autoDownload |-> TRUE, pc |-> "idle", promise |-> "none",
                 result |-> "none"]

-----------------------------------------------------------------------------
(* Characters and strings *)

Chars(s) == [i \in 1..Len(s) |-> SubSeq(s, i, i)]

RECURSIVE StrFrom(_, _)
StrFrom(cs, i) == IF i > Len(cs) THEN "" ELSE cs[i] \o StrFrom(cs, i + 1)

Str(cs) == StrFrom(cs, 1)

LowerLetters == Chars("abcdefghijklmnopqrstuvwxyz")

UpperLetters == Chars("ABCDEFGHIJKLMNOPQRSTUVWXYZ")

UpperMap == [c \in {LowerLetters[i] : i \in 1..26} |->
                UpperLetters[CHOOSE i \in 1..26 : LowerLetters[i] = c]]

\* String.prototype.toUpperCase on one character
ToUpperChar(c) == IF c \in DOMAIN UpperMap THEN UpperMap[c] ELSE c

\* toUpperCase left out: the text is used in the case it was written in
ToUpperCase_Identity(cs) == cs

\* String.prototype.toUpperCase
ToUpperCase(cs) == [i \in 1..Len(cs) |-> ToUpperChar(cs[i])]

\* the regular expression class \s (the characters String.trim removes)
IsSpace(c) == c \in {" ", "\t", "\n", "\r"}

\* the characters the regular expression . does not match
IsLineTerminator(c) == c \in {"\n", "\r"}

IsDigit(c) == c \in {"0", "1", "2", "3", "4", "5", "6", "7", "8", "9"}

\* does the literal w occur in cs at index i (exactly)
OccursAt(cs, i, w) ==
    /\ i >= 1
    /\ i + Len(w) - 1 <= Len(cs)
    /\ \A k \in 1..Len(w) : cs[i + k - 1] = w[k]

\* String.prototype.includes
Includes(cs, w) == \E i \in 1..(Len(cs) - Len(w) + 1) : OccursAt(cs, i, w)

\* number of \s characters of cs starting at index i
RECURSIVE SpaceRun(_, _)
SpaceRun(cs, i) ==
    IF i <= Len(cs) /\ IsSpace(cs[i]) THEN 1 + SpaceRun(cs, i + 1) ELSE 0

\* number of \s characters of cs ending at index i
RECURSIVE SpaceRunBack(_, _)
SpaceRunBack(cs, i) ==
    IF i >= 1 /\ IsSpace(cs[i]) THEN 1 + SpaceRunBack(cs, i - 1) ELSE 0

\* String.prototype.trim
Trim(cs) == SubSeq(cs, 1 + SpaceRun(cs, 1), Len(cs) - SpaceRunBack(cs, Len(cs)))

-----------------------------------------------------------------------------
(* QuerySanitizer.removeComments: three global replaces, in this order *)

\* index of the first "\n" at or after i (Len(cs) + 1 if none): where [^\n]* stops
LineEnd(cs, i) ==
    LET nl == {j \in i..Len(cs) : cs[j] = "\n"}
    IN  IF nl = {} THEN Len(cs) + 1 ELSE CHOOSE j \in nl : \A k \in nl : j <= k

\* query.replace(/<marker>[^\n]*/g, ''), marker being "--" or "#"
RECURSIVE ReplaceLineComments(_, _, _)
ReplaceLineComments(cs, i, marker) ==
    IF i > Len(cs) THEN <<>>
    ELSE IF OccursAt(cs, i, marker)
         THEN ReplaceLineComments(cs, LineEnd(cs, i), marker)
         ELSE <<cs[i]>> \o ReplaceLineComments(cs, i + 1, marker)

\* query.replace(/\/\*[\s\S]*?\*\//g, ''): the lazy body ends at the first "*/"
\* that starts after the opening "/*"; an unclosed "/*" is left in place
RECURSIVE ReplaceBlockComments(_, _)
ReplaceBlockComments(cs, i) ==
    IF i > Len(cs) THEN <<>>
    ELSE IF OccursAt(cs, i, <<"/", "*">>)
              /\ \E j \in (i + 2)..(Len(cs) - 1) : OccursAt(cs, j, <<"*", "/">>)
         THEN LET closes == {j \in (i + 2)..(Len(cs) - 1) : OccursAt(cs, j, <<"*", "/">>)}
              IN  ReplaceBlockComments(cs,
                      (CHOOSE j \in closes : \A k \in closes : j <= k) + 2)
         ELSE <<cs[i]>> \o ReplaceBlockComments(cs, i + 1)

removeComments(cs) ==
    LET noDash  == ReplaceLineComments(cs, 1, <<"-", "-">>)
        noBlock == ReplaceBlockComments(noDash, 1)
    IN  ReplaceLineComments(noBlock, 1, <<"#">>)

-----------------------------------------------------------------------------
(* The regular expressions of QuerySanitizer.  A pattern is its source    *)
(* text, its flags and its program: the sequence of its elements after    *)
(* the anchor ^ (every pattern of the class is anchored and none has the   *)
(* m flag, so a match can only start at index 0).                          *)

WsStar == [op |-> "\\s*"]

WsPlus == [op |-> "\\s+"]

Lit(w) == [op |-> "lit", text |-> Chars(w)]

\* (?!.*@): no "@" on the rest of the current line
NoAtAhead == [op |-> "(?!.*@)"]

\* the pattern written with the g flag as well
RegExp_Global(src, prog) == [source |-> src, flags |-> {"g", "i"}, prog |-> prog]

RegExp(src, prog) == [source |-> src, flags |-> {"i"}, prog |-> prog]

\* /^\s*KW\s+/i
KeywordPattern(src, kw) == RegExp(src, <<WsStar, Lit(kw), WsPlus>>)

MUTATION_PATTERNS == <<
    KeywordPattern("^\\s*INSERT\\s+", "INSERT"),
    KeywordPattern("^\\s*UPDATE\\s+", "UPDATE"),
    KeywordPattern("^\\s*DELETE\\s+", "DELETE"),
    KeywordPattern("^\\s*DROP\\s+", "DROP"),
    KeywordPattern("^\\s*CREATE\\s+", "CREATE"),
    KeywordPattern("^\\s*ALTER\\s+", "ALTER"),
    KeywordPattern("^\\s*TRUNCATE\\s+", "TRUNCATE"),
    KeywordPattern("^\\s*RENAME\\s+", "RENAME"),
    KeywordPattern("^\\s*REPLACE\\s+", "REPLACE"),
    KeywordPattern("^\\s*LOAD\\s+", "LOAD"),
    KeywordPattern("^\\s*GRANT\\s+", "GRANT"),
    KeywordPattern("^\\s*REVOKE\\s+", "REVOKE"),
    KeywordPattern("^\\s*FLUSH\\s+", "FLUSH"),
    KeywordPattern("^\\s*LOCK\\s+", "LOCK"),
    KeywordPattern("^\\s*UNLOCK\\s+", "UNLOCK"),
    RegExp("^\\s*SET\\s+(?!.*@)", <<WsStar, Lit("SET"), WsPlus, NoAtAhead>>),
    KeywordPattern("^\\s*CALL\\s+", "CALL"),
    RegExp("^\\s*START\\s+TRANSACTION",
           <<WsStar, Lit("START"), WsPlus, Lit("TRANSACTION")>>),
    RegExp("^\\s*BEGIN", <<WsStar, Lit("BEGIN")>>),
    RegExp("^\\s*COMMIT", <<WsStar, Lit("COMMIT")>>),
    RegExp("^\\s*ROLLBACK", <<WsStar, Lit("ROLLBACK")>>),
    RegExp("^\\s*SAVEPOINT", <<WsStar, Lit("SAVEPOINT")>>),
    RegExp("^\\s*RELEASE\\s+SAVEPOINT",
           <<WsStar, Lit("RELEASE"), WsPlus, Lit("SAVEPOINT")>>) >>

\* DESC written without the trailing \s+
ALLOWED_PATTERNS_NoSpace == <<
    KeywordPattern("^\\s*SELECT\\s+", "SELECT"),
    KeywordPattern("^\\s*SHOW\\s+", "SHOW"),
    KeywordPattern("^\\s*DESCRIBE\\s+", "DESCRIBE"),
    RegExp("^\\s*DESC", <<WsStar, Lit("DESC")>>),
    KeywordPattern("^\\s*EXPLAIN\\s+", "EXPLAIN"),
    KeywordPattern("^\\s*WITH\\s+", "WITH"),
    RegExp("^\\s*SET\\s+@", <<WsStar, Lit("SET"), WsPlus, Lit("@")>>) >>

ALLOWED_PATTERNS == <<
    KeywordPattern("^\\s*SELECT\\s+", "SELECT"),
    KeywordPattern("^\\s*SHOW\\s+", "SHOW"),
    KeywordPattern("^\\s*DESCRIBE\\s+", "DESCRIBE"),
    KeywordPattern("^\\s*DESC\\s+", "DESC"),
    KeywordPattern("^\\s*EXPLAIN\\s+", "EXPLAIN"),
    KeywordPattern("^\\s*WITH\\s+", "WITH"),
    RegExp("^\\s*SET\\s+@", <<WsStar, Lit("SET"), WsPlus, Lit("@")>>) >>

DANGEROUS_KEYWORDS == <<
    Chars("INTO OUTFILE"),
    Chars("INTO DUMPFILE"),
    Chars("FOR UPDATE"),
    Chars("LOCK IN SHARE MODE") >>

\* a literal of a pattern at index i, compared as the i flag says
LitAt(cs, i, w, flags) ==
    /\ i + Len(w) - 1 <= Len(cs)
    /\ \A k \in 1..Len(w) :
         IF "i" \in flags THEN ToUpperChar(cs[i + k - 1]) = ToUpperChar(w[k])
                          ELSE cs[i + k - 1] = w[k]

\* the lookahead body .*@ matches at i: an "@" before the next line terminator
AtAhead(cs, i) ==
    \E j \in i..Len(cs) :
        /\ cs[j] = "@"
        /\ \A k \in i..(j - 1) : ~IsLineTerminator(cs[k])

\* Backtracking match of the program elements k.. of re at index i of cs: the
\* index just after the match the engine finds first, or 0 if there is no
\* match.  RepeatEnd is the greedy quantifier of element k having taken n
\* white-space characters: the rest is tried, and on failure one character
\* is given back, down to the quantifier's least count.
RECURSIVE MatchEnd(_, _, _, _), RepeatEnd(_, _, _, _, _, _)
MatchEnd(re, k, cs, i) ==
    IF k > Len(re.prog) THEN i
    ELSE LET e == re.prog[k]
         IN  CASE e.op = "lit" ->
                    IF LitAt(cs, i, e.text, re.flags)
                    THEN MatchEnd(re, k + 1, cs, i + Len(e.text))
                    ELSE 0
               [] e.op = "(?!.*@)" ->
                    IF AtAhead(cs, i) THEN 0 ELSE MatchEnd(re, k + 1, cs, i)
               [] e.op = "\\s+" -> RepeatEnd(re, k, cs, i, SpaceRun(cs, i), 1)
               [] e.op = "\\s*" -> RepeatEnd(re, k, cs, i, SpaceRun(cs, i), 0)

RepeatEnd(re, k, cs, i, n, least) ==
    IF n < least THEN 0
    ELSE LET end == MatchEnd(re, k + 1, cs, i + n)
         IN  IF end # 0 THEN end ELSE RepeatEnd(re, k, cs, i, n - 1, least)

\* RegExp.prototype.test of an anchored pattern whose lastIndex is li: a
\* pattern with the g or y flag starts at lastIndex and leaves the end of the
\* match (0 on failure) in lastIndex; any other pattern starts at 0 and
\* leaves lastIndex alone.  Returns the answer and the new lastIndex.
RegExpTest(re, li, cs) ==
    LET sticky == re.flags \cap {"g", "y"} # {}
        start  == IF sticky THEN li ELSE 0
        end    == IF start = 0 THEN MatchEnd(re, 1, cs, 1) ELSE 0
    IN  [matched   |-> end # 0,
         lastIndex |-> IF sticky THEN (IF end # 0 THEN end - 1 ELSE 0) ELSE li]

-----------------------------------------------------------------------------
(* QuerySanitizer.hasMultipleStatements *)

\* One pass through the loop body at index i: the three locals after it, and
\* whether the body returned true.
ScanStep(cs, i, inString, stringChar, escaped) ==
    LET char == cs[i]
        keep == [inString |-> inString, stringChar |-> stringChar,
                 escaped |-> FALSE, found |-> FALSE]
    IN  IF escaped THEN keep
        ELSE IF char = "\\" THEN [keep EXCEPT !.escaped = TRUE]
        ELSE IF ~inString /\ char \in {"\"", "'"}
        THEN [keep EXCEPT !.inString = TRUE, !.stringChar = char]
        ELSE IF inString /\ char = stringChar
        THEN [keep EXCEPT !.inString = FALSE]
        ELSE IF ~inString /\ char = ";"
                /\ Len(Trim(SubSeq(cs, i + 1, Len(cs)))) > 0
        THEN [keep EXCEPT !.found = TRUE]
        ELSE keep

\* The loop from index i on, with the loop's three locals.
RECURSIVE ScanStatements(_, _, _, _, _)
ScanStatements(cs, i, inString, stringChar, escaped) ==
    IF i > Len(cs) THEN FALSE
    ELSE LET n == ScanStep(cs, i, inString, stringChar, escaped)
         IN  n.found \/ ScanStatements(cs, i + 1, n.inString, n.stringChar, n.escaped)

hasMultipleStatements(cs) == ScanStatements(cs, 1, FALSE, "", FALSE)

-----------------------------------------------------------------------------
(* QuerySanitizer.sanitize *)

Undefined == "<undefined>"

Invalid(msg) == [isValid |-> FALSE, error |-> msg, sanitizedQuery |-> ""]

Valid(cs) == [isValid |-> TRUE, error |-> Undefined, sanitizedQuery |-> Str(cs)]

\* lastIndex of the static patterns right after the class is loaded
FreshLastIndex ==
    [mutation |-> [k \in 1..Len(MUTATION_PATTERNS) |-> 0],
     allowed  |-> [k \in 1..Len(ALLOWED_PATTERNS) |-> 0]]

\* The for loop over MUTATION_PATTERNS from pattern k on: the index of the
\* first pattern that tests true (0 if none) and the patterns' lastIndex after.
RECURSIVE MutationScan(_, _, _)
MutationScan(cs, k, li) ==
    IF k > Len(MUTATION_PATTERNS) THEN [hit |-> 0, li |-> li]
    ELSE LET t == RegExpTest(MUTATION_PATTERNS[k], li[k], cs)
             after == [li EXCEPT ![k] = t.lastIndex]
         IN  IF t.matched THEN [hit |-> k, li |-> after]
             ELSE MutationScan(cs, k + 1, after)

\* the allowed patterns written without the anchor ^: a match may start anywhere
AllowedScan_Unanchored(cs, k, li) ==
    LET hits == {p \in k..Len(ALLOWED_PATTERNS) :
                    \E i \in 1..Len(cs) : MatchEnd(ALLOWED_PATTERNS[p], 1, cs, i) # 0}
    IN  [hit |-> IF hits = {} THEN 0 ELSE CHOOSE p \in hits : \A o \in hits : p <= o,
         li  |-> li]

\* ALLOWED_PATTERNS.some(pattern => pattern.test(sanitizedQuery))
RECURSIVE AllowedScan(_, _, _)
AllowedScan(cs, k, li) ==
    IF k > Len(ALLOWED_PATTERNS) THEN [hit |-> 0, li |-> li]
    ELSE LET t == RegExpTest(ALLOWED_PATTERNS[k], li[k], cs)
             after == [li EXCEPT ![k] = t.lastIndex]
         IN  IF t.matched THEN [hit |-> k, li |-> after]
             ELSE AllowedScan(cs, k + 1, after)

\* upperQuery.includes(keyword) for the first keyword from k on (0 if none)
RECURSIVE DangerousScan(_, _)
DangerousScan(upperQuery, k) ==
    IF k > Len(DANGEROUS_KEYWORDS) THEN 0
    ELSE IF Includes(upperQuery, DANGEROUS_KEYWORDS[k]) THEN k
         ELSE DangerousScan(upperQuery, k + 1)

\* the checks with the allowed-prefix requirement before the mutation scan
Classify_AllowedFirst(sanitizedQuery, li) ==
    LET a == AllowedScan(sanitizedQuery, 1, li.allowed)
        m == MutationScan(sanitizedQuery, 1, li.mutation)
        liAfter == [mutation |-> m.li, allowed |-> a.li]
    IN  IF Len(sanitizedQuery) = 0
        THEN [result |-> Invalid("Query is empty"), lastIndex |-> li]
        ELSE IF a.hit = 0
        THEN [result |-> Invalid(
                 "Query must start with SELECT, SHOW, DESCRIBE, DESC, EXPLAIN, WITH, or SET @"),
              lastIndex |-> liAfter]
        ELSE IF m.hit # 0
        THEN [result |-> Invalid("Query contains mutation operation: "
                                   \o MUTATION_PATTERNS[m.hit].source),
              lastIndex |-> liAfter]
        ELSE IF hasMultipleStatements(sanitizedQuery)
        THEN [result |-> Invalid("Multiple statements are not allowed"),
              lastIndex |-> liAfter]
        ELSE [result |-> Valid(sanitizedQuery), lastIndex |-> liAfter]

\* The checks of sanitize on the comment-stripped, trimmed text, the static
\* patterns having lastIndex li: the result and the patterns' lastIndex after.
Classify(sanitizedQuery, li) ==
    IF Len(sanitizedQuery) = 0
    THEN [result |-> Invalid("Query is empty"), lastIndex |-> li]
    ELSE
    LET m == MutationScan(sanitizedQuery, 1, li.mutation)
    IN  IF m.hit # 0
        THEN [result |-> Invalid("Query contains mutation operation: "
                                   \o MUTATION_PATTERNS[m.hit].source),
              lastIndex |-> [li EXCEPT !.mutation = m.li]]
        ELSE
    LET a == AllowedScan(sanitizedQuery, 1, li.allowed)
        liAfter == [mutation |-> m.li, allowed |-> a.li]
    IN  IF a.hit = 0
        THEN [result |-> Invalid(
                 "Query must start with SELECT, SHOW, DESCRIBE, DESC, EXPLAIN, WITH, or SET @"),
              lastIndex |-> liAfter]
        ELSE
    LET d == DangerousScan(ToUpperCase(sanitizedQuery), 1)
    IN  IF d # 0
        THEN [result |-> Invalid("Query contains dangerous keyword: "
                                   \o Str(DANGEROUS_KEYWORDS[d])),
              lastIndex |-> liAfter]
        ELSE IF hasMultipleStatements(sanitizedQuery)
        THEN [result |-> Invalid("Multiple statements are not allowed"),
              lastIndex |-> liAfter]
        ELSE [result |-> Valid(sanitizedQuery), lastIndex |-> liAfter]

\* the checks run on the raw query and the comments are removed afterwards
sanitizeCall_ChecksBeforeStrip(q, li) ==
    LET r == Classify(Trim(Chars(q)), li)
    IN  IF r.result.isValid
        THEN [r EXCEPT !.result.sanitizedQuery = Str(Trim(removeComments(Chars(q))))]
        ELSE r

\* sanitize(query) called while the static patterns have lastIndex li
sanitizeCall(q, li) == Classify(Trim(removeComments(Chars(q))), li)

\* sanitize(query) as the first call after the class is loaded
sanitize(q) == sanitizeCall(q, FreshLastIndex).result

-----------------------------------------------------------------------------
(* ExecuteQueryTool.execute up to the call of mysqlManager.executeQuery *)

\* config.query.maxRows when MAX_ROWS is not set
maxRows == 1000

DigitChars == Chars("0123456789")

\* `${n}` for a natural number n
RECURSIVE NumberToString(_)
NumberToString(n) ==
    IF n < 10 THEN <<DigitChars[n + 1]>>
    ELSE NumberToString(n \div 10) \o <<DigitChars[(n % 10) + 1]>>

\* a character of the regular expression class \w
IsWordChar(c) == ToUpperChar(c) \in {UpperLetters[i] : i \in 1..26} \/ IsDigit(c) \/ c = "_"

\* /\bLIMIT\s+\d+/i.test(cs)
HasLimitClause(cs) ==
    \E i \in 1..Len(cs) :
        /\ i = 1 \/ ~IsWordChar(cs[i - 1])
        /\ LitAt(cs, i, Chars("LIMIT"), {"i"})
        /\ SpaceRun(cs, i + 5) > 0
        /\ i + 5 + SpaceRun(cs, i + 5) <= Len(cs)
        /\ IsDigit(cs[i + 5 + SpaceRun(cs, i + 5)])

\* /^\s*SELECT\s+/i.test(cs), on a pattern object made for this call
StartsWithSelect(cs) == MatchEnd(ALLOWED_PATTERNS[1], 1, cs, 1) # 0

\* input.limit left out of the call, and input.limit given as the number n
NoLimit == [given |-> FALSE, value |-> 0]

Given(n) == [given |-> TRUE, value |-> n]

\* input.limit || config.query.maxRows: undefined and 0 are both falsy
EffectiveLimit(lim) == IF lim.given /\ lim.value # 0 THEN lim.value ELSE maxRows

\* finalQuery for an admitted query and input.limit lim
FinalQuery(sanitizedQuery, lim) ==
    LET cap == EffectiveLimit(lim)
        cs  == Chars(sanitizedQuery)
    IN  IF ~HasLimitClause(cs) /\ StartsWithSelect(cs)
        THEN sanitizedQuery \o " LIMIT " \o Str(NumberToString(cap))
        ELSE sanitizedQuery

-----------------------------------------------------------------------------
(* The inputs *)

\* pieces that may follow the first keyword of a query, at most this many
MaxTail == 3

\* pieces that may follow a keyword in the queries that vary the keyword
MaxFollow == 1

NoResult == [isValid |-> FALSE, error |-> Undefined, sanitizedQuery |-> ""]

NotSent == "<not sent>"

Limits == {NoLimit, Given(0), Given(5)}

Leads == {"", " ", "/*x*/ ", "-- x\n"}

MutationHeads ==
    {"INSERT", "UPDATE", "DELETE", "DROP", "CREATE", "ALTER", "TRUNCATE",
     "RENAME", "REPLACE", "LOAD", "GRANT", "REVOKE", "FLUSH", "LOCK", "UNLOCK",
     "CALL", "START TRANSACTION", "BEGIN", "COMMIT", "ROLLBACK", "SAVEPOINT",
     "RELEASE SAVEPOINT"}

AllowedHeads == {"SELECT", "SHOW", "DESCRIBE", "DESC", "EXPLAIN", "WITH", "SET"}

OtherHeads ==
    {"delete", "Select", "SEL/*x*/ECT", "DEL/*x*/ETE", "START", "x",
     "WITH c AS (SELECT 1)"}

\* what may follow the keyword in the queries that vary the keyword
FollowPieces == {" ", "\n", ";", "@x", "/*x*/", "(SELECT 1)", " DELETE FROM t"}

BodyHeads == {"SELECT", "SET"}

\* what the rest of a query is made of in the queries that vary the rest
Pieces ==
    {" ", "\n", ";", "'", "\\", "@x", "-", "/*x*/", "#",
     " for update", "'a;b'", "; DELETE FROM t"}

\* the concatenations of at most n of the given pieces
RECURSIVE Tails(_, _)
Tails(pieces, n) ==
    IF n = 0 THEN {""}
    ELSE LET shorter == Tails(pieces, n - 1)
         IN  shorter \cup {t \o p : t \in shorter, p \in pieces}

\* every keyword, after every lead, followed by at most MaxFollow pieces
HeadInputs ==
    {l \o h \o t : l \in Leads,
                   h \in MutationHeads \cup AllowedHeads \cup OtherHeads,
                   t \in Tails(FollowPieces, MaxFollow)}

\* an admitted keyword and a space, followed by at most MaxTail pieces
BodyInputs == {h \o " " \o t : h \in BodyHeads, t \in Tails(Pieces, MaxTail)}

Inputs == HeadInputs \cup BodyInputs

-----------------------------------------------------------------------------------------------------------------------------------------------------
(* What the tools return *)

NoResponse == [kind |-> "none"]

\* execute returning the sanitizer's rejection
Rejection(err) ==
    [success |-> FALSE,
     error   |-> err,
     message |-> "Query rejected: This appears to be a mutation operation. Only read-only queries are allowed."]

\* the catch clause of execute, for the message of the error caught
Failure(msg) ==
    [success |-> FALSE, error |-> msg, message |-> "Query execution failed."]

\* execute returning an array of n rows (data is kept as its length)
RowsResponse(n, lim) ==
    LET cap       == EffectiveLimit(lim)
        truncated == n = cap
    IN  [success   |-> TRUE,
         rowCount  |-> n,
         truncated |-> truncated,
         message   |-> IF truncated
                       THEN "Query executed successfully. Showing first "
                              \o Str(NumberToString(cap)) \o " rows."
                       ELSE "Query executed successfully. "
                              \o Str(NumberToString(n)) \o " row(s) returned."]

\* execute returning a result that is not an array
ObjectResponse == [success |-> TRUE, message |-> "Query executed successfully."]

-----------------------------------------------------------------------------
(* One call of execute_query *)

Init ==
    /\ query \in Inputs
    /\ limit = NoLimit
    /\ pc = "ready"
    /\ result = NoResult
    /\ sent = NotSent
    /\ lastIndex = FreshLastIndex
    /\ history = <<>>
    /\ tool = "execute_query"
    /\ table = ""
    /\ dbCall = "none"
    /\ timer = "none"
    /\ replies = <<>>
    /\ response = NoResponse
    /\ InfraIdle
    /\ BinaryIdle

\* an execute that hands the query to the database before it looks at the
\* sanitizer's verdict
Execute_SendsFirst ==
    /\ pc = "ready"
    /\ tool = "execute_query"
    /\ \E r \in {sanitizeCall(query, lastIndex)} :
         /\ result' = r.result
         /\ lastIndex' = r.lastIndex
         /\ history' = Append(history, [query |-> query, result |-> r.result])
         /\ \E lim \in Limits :
               /\ limit' = lim
               /\ sent' = FinalQuery(query, lim)
         /\ dbCall' = "pending"
         /\ timer' = "armed"
         /\ response' = IF r.result.isValid THEN response
                        ELSE Rejection(r.result.error)
    /\ pc' = "done"
    /\ UNCHANGED <<query, tool, table, replies, infra, binVars>>

\* ExecuteQueryTool.execute up to its first await: sanitize, then either the
\* rejection is returned and nothing is sent, or input.limit is read, the
\* final query is handed to the database and the timeout timer is set
Execute ==
    /\ pc = "ready"
    /\ tool = "execute_query"
    /\ \E r \in {sanitizeCall(query, lastIndex)} :
         /\ result' = r.result
         /\ lastIndex' = r.lastIndex
         /\ history' = Append(history, [query |-> query, result |-> r.result])
         /\ IF ~r.result.isValid
            THEN /\ sent' = NotSent
                 /\ response' = Rejection(r.result.error)
                 /\ UNCHANGED <<limit, dbCall, timer>>
            ELSE /\ \E lim \in Limits :
                       /\ limit' = lim
                       /\ sent' = FinalQuery(r.result.sanitizedQuery, lim)
                 /\ dbCall' = "pending"
                 /\ timer' = "armed"
                 /\ UNCHANGED response
    /\ pc' = "done"
    /\ UNCHANGED <<query, tool, table, replies, infra, binVars>>

Next == Execute

Spec == Init /\ [][Next]_vars

-----------------------------------------------------------------------------
(* Calls of sanitize one after another in one server process: the static   *)
(* pattern objects of QuerySanitizer live as long as the process does.     *)

\* calls of sanitize in one run
MaxCalls == 4

CallInputs ==
    {"DELETE FROM t", "SELECT * FROM users", "SET @x = 1",
     "SET autocommit = 0", "SELECT * FROM t; DROP TABLE t"}

InitCalls ==
    /\ query = ""
    /\ limit = NoLimit
    /\ pc = "ready"
    /\ result = NoResult
    /\ sent = NotSent
    /\ lastIndex = FreshLastIndex
    /\ history = <<>>
    /\ tool = "execute_query"
    /\ table = ""
    /\ dbCall = "none"
    /\ timer = "none"
    /\ replies = <<>>
    /\ response = NoResponse
    /\ InfraIdle
    /\ BinaryIdle

\* one more call of QuerySanitizer.sanitize, on any input
SanitizeCall ==
    /\ Len(history) < MaxCalls
    /\ \E q \in CallInputs :
         \E r \in {sanitizeCall(q, lastIndex)} :
            /\ query' = q
            /\ result' = r.result
            /\ lastIndex' = r.lastIndex
            /\ history' = Append(history, [query |-> q, result |-> r.result])
    /\ UNCHANGED <<limit, pc, sent, tool, table, dbCall, timer, replies, response, infra, binVars>>

NextCalls == SanitizeCall

SpecCalls == InitCalls /\ [][NextCalls]_vars

-----------------------------------------------------------------------------
(* The three tools, each from its invocation to the settling of everything   *)
(* it started: the database calls and, for execute_query, the timeout timer. *)

\* clauses that may follow the first clause of a query, at most this many
MaxClauses == 2

Tools == {"execute_query", "show_tables", "describe_table"}

QueryHeads ==
    {"SELECT a", "select a", "SHOW TABLES", "DESCRIBE t", "DESC t",
     "EXPLAIN SELECT a", "WITH c AS (SELECT 1) SELECT a", "SET @x = 1",
     "DELETE FROM t", "SELECT a FROM (SELECT b LIMIT 5) s"}

Clauses == {" FROM t", " LIMIT 5", " limit\n5", ",'LIMIT 1'", ";"}

ToolQueries == {h \o t : h \in QueryHeads, t \in Tails(Clauses, MaxClauses)}

Tables == {"users", "order items", "x'; DROP TABLE y"}

\* stands for the one character ` in the texts describe_table builds
Backtick == "<backtick>"

\* a describe_table that interpolates the argument as it is
TableName_Raw(t) == t

\* input.table.replace(/[^a-zA-Z0-9_]/g, '')
TableName(t) == Str(SelectSeq(Chars(t), IsWordChar))

\* the three metadata queries of describe_table, in the order they are sent
DescribeQueries(tableName) ==
    <<"DESCRIBE " \o Backtick \o tableName \o Backtick,
      "SHOW INDEX FROM " \o Backtick \o tableName \o Backtick,
      "SHOW TABLE STATUS LIKE '" \o tableName \o "'">>

\* `${error}` for an Error object with the given message
ErrorToString(msg) == "Error: " \o msg

\* messages of the errors the driver raises when executing a statement
DriverErrors == {"Query timeout", "Table 't' doesn't exist"}

\* messages of the errors raised while the pool is being set up
ConnectErrors == {"connect ECONNREFUSED 127.0.0.1:3306"}

\* the messages of the errors mysqlManager.executeQuery rejects with: a
\* wrapped driver error, or the error of getConnection as it is
ExecuteQueryErrors ==
    {"Query execution failed: " \o ErrorToString(d) : d \in DriverErrors}
      \cup {"Failed to connect to MySQL: " \o ErrorToString(c) : c \in ConnectErrors}

\* row counts a result set may have
RowCounts == {0, 5, maxRows}

DigitValue(c) == CHOOSE d \in 0..9 : DigitChars[d + 1] = c

\* parseInt of a sequence of digits
RECURSIVE ParseNat(_)
ParseNat(ds) ==
    IF ds = <<>> THEN 0
    ELSE 10 * ParseNat(SubSeq(ds, 1, Len(ds) - 1)) + DigitValue(ds[Len(ds)])

\* number of digits of cs ending at index i
RECURSIVE DigitRunBack(_, _)
DigitRunBack(cs, i) ==
    IF i >= 1 /\ IsDigit(cs[i]) THEN 1 + DigitRunBack(cs, i - 1) ELSE 0

\* The row cap of a statement: the number of the LIMIT clause that ends its
\* text, as a set (empty when the text does not end with LIMIT and a number).
TrailingLimit(cs) ==
    LET n == DigitRunBack(cs, Len(cs))
        w == SpaceRunBack(cs, Len(cs) - n)
        k == Len(cs) - n - w - 4
    IN  IF /\ n > 0 /\ w > 0 /\ k >= 1
           /\ LitAt(cs, k, Chars("LIMIT"), {"i"})
           /\ k = 1 \/ ~IsWordChar(cs[k - 1])
        THEN {ParseNat(SubSeq(cs, Len(cs) - n + 1, Len(cs)))}
        ELSE {}

\* What the database may answer to a statement: SET answers with a result
\* header, every other statement with rows, no more than its row cap.
Replies(text) ==
    LET cs == Chars(text)
    IN  IF LitAt(cs, 1, Chars("SET"), {"i"}) /\ SpaceRun(cs, 4) > 0
        THEN {[kind |-> "object"]}
        ELSE {[kind |-> "rows", count |-> n] :
                n \in {m \in RowCounts : \A cap \in TrailingLimit(cs) : m <= cap}}

ErrorReply(msg) == [kind |-> "error", message |-> msg]

\* ShowTablesTool.execute returning
ShowTablesResponse(r) ==
    IF r.kind = "error"
    THEN [content |-> <<[type |-> "text",
                         text |-> "Error: Failed to list tables: "
                                    \o ErrorToString(r.message)]>>]
    ELSE IF r.kind = "rows" /\ r.count = 0
    THEN [tables |-> 0, message |-> "No tables found in the database"]
    ELSE [tables  |-> r.count,
          count   |-> r.count,
          message |-> "Found " \o Str(NumberToString(r.count)) \o " table(s)"]

\* DescribeTableTool.execute returning, rs being the replies so far (row
\* data is kept as the number of rows)
DescribeTableResponse(rs) ==
    IF rs[Len(rs)].kind = "error"
    THEN [error |-> "Failed to describe table '" \o table \o "': "
                      \o ErrorToString(rs[Len(rs)].message)]
    ELSE [table    |-> TableName(table),
          columns  |-> rs[1].count,
          indexes  |-> rs[2].count,
          metadata |-> rs[3].count > 0]

\* ExecuteQueryTool.execute returning after the race was won by the database
ExecuteQueryResponse(r) ==
    IF r.kind = "error" THEN Failure(r.message)
    ELSE IF r.kind = "rows" THEN RowsResponse(r.count, limit)
    ELSE ObjectResponse

InitTools ==
    /\ tool \in Tools
    /\ query \in IF tool = "execute_query" THEN ToolQueries ELSE {""}
    /\ table \in IF tool = "describe_table" THEN Tables ELSE {""}
    /\ limit = NoLimit
    /\ pc = "ready"
    /\ result = NoResult
    /\ sent = NotSent
    /\ lastIndex = FreshLastIndex
    /\ history = <<>>
    /\ dbCall = "none"
    /\ timer = "none"
    /\ replies = <<>>
    /\ response = NoResponse
    /\ InfraIdle
    /\ BinaryIdle

\* ShowTablesTool.execute up to its await
ShowTables ==
    /\ pc = "ready"
    /\ tool = "show_tables"
    /\ sent' = "SHOW TABLES"
    /\ dbCall' = "pending"
    /\ pc' = "done"
    /\ UNCHANGED <<query, limit, result, lastIndex, history, tool, table,
                   timer, replies, response, infra, binVars>>

\* DescribeTableTool.execute up to its first await
DescribeTable ==
    /\ pc = "ready"
    /\ tool = "describe_table"
    /\ sent' = DescribeQueries(TableName(table))[1]
    /\ dbCall' = "pending"
    /\ pc' = "columns"
    /\ UNCHANGED <<query, limit, result, lastIndex, history, tool, table,
                   timer, replies, response, infra, binVars>>

\* The pending database call has settled with r: the tool goes on from its
\* await.  execute_query has returned already if its timer fired before.
Settle(r) ==
    /\ replies' = Append(replies, r)
    /\ CASE tool = "execute_query" ->
              /\ dbCall' = "settled"
              /\ response' = IF response = NoResponse
                             THEN ExecuteQueryResponse(r) ELSE response
              /\ UNCHANGED <<pc, sent>>
         [] tool = "show_tables" ->
              /\ dbCall' = "settled"
              /\ response' = ShowTablesResponse(r)
              /\ UNCHANGED <<pc, sent>>
         [] tool = "describe_table" ->
              IF r.kind # "error" /\ pc \in {"columns", "indexes"}
              THEN /\ pc' = IF pc = "columns" THEN "indexes" ELSE "status"
                   /\ sent' = DescribeQueries(TableName(table))[Len(replies) + 2]
                   /\ UNCHANGED <<dbCall, response>>
              ELSE /\ pc' = "done"
                   /\ dbCall' = "settled"
                   /\ response' = DescribeTableResponse(Append(replies, r))
                   /\ UNCHANGED sent
    /\ UNCHANGED <<query, limit, result, lastIndex, history, tool, table, timer,
                   infra, binVars>>

\* mysqlManager.executeQuery resolves
DbResolves ==
    /\ dbCall = "pending"
    /\ \E r \in Replies(sent) : Settle(r)

\* mysqlManager.executeQuery rejects
DbRejects ==
    /\ dbCall = "pending"
    /\ \E msg \in ExecuteQueryErrors : Settle(ErrorReply(msg))

\* the timer's rejection is returned whether or not the race was settled
TimeoutFires_Overwrites ==
    /\ timer = "armed"
    /\ timer' = "fired"
    /\ response' = Failure("Query timeout")
    /\ UNCHANGED <<query, limit, pc, result, sent, lastIndex, history, tool,
                   table, dbCall, replies, infra, binVars>>

\* the timer set by execute fires: reject(new Error('Query timeout'))
TimeoutFires ==
    /\ timer = "armed"
    /\ timer' = "fired"
    /\ response' = IF response = NoResponse THEN Failure("Query timeout") ELSE response
    /\ UNCHANGED <<query, limit, pc, result, sent, lastIndex, history, tool,
                   table, dbCall, replies, infra, binVars>>

NextTools ==
    \/ Execute
    \/ ShowTables
    \/ DescribeTable
    \/ DbResolves
    \/ DbRejects
    \/ TimeoutFires

SpecTools == InitTools /\ [][NextTools]_vars

-----------------------------------------------------------------------------
(* describe_table formatting the rows of SHOW INDEX (SpecIndexes) *)

\* rows of SHOW INDEX that one reply may hold, at most this many
MaxIndexRows == 4

\* the rows of SHOW INDEX for a table with a primary key, an index on two
\* columns and an index on one column
IndexRows ==
    {[Key_name |-> "PRIMARY", Non_unique |-> 0, Column_name |-> "id",
      Seq_in_index |-> 1],
     [Key_name |-> "by_name", Non_unique |-> 1, Column_name |-> "last",
      Seq_in_index |-> 1],
     [Key_name |-> "by_name", Non_unique |-> 1, Column_name |-> "first",
      Seq_in_index |-> 2],
     [Key_name |-> "by_mail", Non_unique |-> 0, Column_name |-> "email",
      Seq_in_index |-> 1]}

\* the replies to SHOW INDEX: some of the rows, each once, in any order
IndexReplies ==
    UNION {{rows \in [1 .. n -> IndexRows] :
               \A i, j \in 1 .. n : i # j => rows[i] # rows[j]} :
             n \in 0 .. MaxIndexRows}

\* the place of the descriptor named name in the Map m (0 if it has none)
IndexOfName(m, name) ==
    IF \E k \in 1 .. Len(m) : m[k].name = name
    THEN CHOOSE k \in 1 .. Len(m) : m[k].name = name
    ELSE 0

\* indexMap after the forEach callback has run on the first k rows; the Map
\* keeps its entries in the order of their insertion
RECURSIVE indexMap(_, _)
indexMap(indexes, k) ==
    IF k = 0 THEN <<>>
    ELSE LET idx == indexes[k]
             m == indexMap(indexes, k - 1)
             has == IndexOfName(m, idx.Key_name) # 0
             set == IF has THEN m
                    ELSE Append(m, [name |-> idx.Key_name,
                                    unique |-> idx.Non_unique = 0,
                                    columns |-> <<>>])
             at == IndexOfName(set, idx.Key_name)
         IN  [set EXCEPT ![at].columns =
                 Append(@, [column |-> idx.Column_name,
                            sequence |-> idx.Seq_in_index])]

\* Array.from(indexMap.values())
formattedIndexes(indexes) == indexMap(indexes, Len(indexes))

InitIndexes ==
    /\ tool = "describe_table"
    /\ table = "users"
    /\ pc = "indexes"
    /\ \E rows \in IndexReplies :
         replies = <<[kind |-> "rows", rows |-> rows]>>
    /\ response = NoResponse
    /\ query = ""
    /\ limit = NoLimit
    /\ result = NoResult
    /\ sent = NotSent
    /\ lastIndex = FreshLastIndex
    /\ history = <<>>
    /\ dbCall = "settled"
    /\ timer = "none"
    /\ InfraIdle
    /\ BinaryIdle

\* DescribeTableTool.execute formats the rows the database returned
FormatIndexes ==
    /\ pc = "indexes"
    /\ tool = "describe_table"
    /\ dbCall = "settled"
    /\ response' = [table |-> TableName(table),
                    indexes |-> formattedIndexes(replies[1].rows)]
    /\ pc' = "done"
    /\ UNCHANGED <<query, limit, result, sent, lastIndex, history, tool, table,
                   dbCall, timer, replies, infra, binVars>>

NextIndexes == FormatIndexes

SpecIndexes == InitIndexes /\ [][NextIndexes]_vars

-----------------------------------------------------------------------------
(* One call of execute_query on texts that fail several checks at once *)

OrderHeads ==
    {"", " ", "-- c\n", "DELETE FROM t", "delete from t", "x", "SELECT a",
     "SET x = 1", "SET @x = 1", "BEGIN", "START TRANSACTION", "SHOW TABLES"}

OrderPieces ==
{" FOR UPDATE", " into outfile", "; x", ";", "/*c*/"}

OrderInputs == {h \o t : h \in OrderHeads, t \in Tails(OrderPieces, MaxClauses)}

InitOrder ==
    /\ query \in OrderInputs
    /\ limit = NoLimit
    /\ pc = "ready"
    /\ result = NoResult
    /\ sent = NotSent
    /\ lastIndex = FreshLastIndex
    /\ history = <<>>
    /\ tool = "execute_query"
    /\ table = ""
    /\ dbCall = "none"
    /\ timer = "none"
    /\ replies = <<>>
    /\ response = NoResponse
    /\ InfraIdle
    /\ BinaryIdle

SpecOrder == InitOrder /\ [][Next]_vars

-----------------------------------------------------------------------------
(* The connection manager (src/src/utils/MySQLManager.ts) and the proxy     *)
(* supervisor (src/src/utils/CloudSQLProxy.ts).                             *)
(*                                                                         *)
(* Calls are tasks on the one JavaScript thread: the code of an async      *)
(* function from one await to the next runs without interruption, and other *)
(* tasks and the events of the subprocess come in between, at the awaits.   *)
(* An await of a promise that is already resolved does not let an event or  *)
(* another call in, so it does not end an action.                           *)
(*                                                                         *)
(* Objects are numbered in the order of their creation; Null is no object.  *)
(* The operators below take the objects as a record S (World) and give the  *)
(* record after the code has run.                                           *)
(***************************************************************************)

\* config.cloudSqlProxy as far as the code below reads it
Configs ==
    [enabled : BOOLEAN, instanceConnectionName : {"", "p:r:i"}]

\* a CloudSQLProxy object after its constructor
NewProxy == [process |-> Null, isRunning |-> FALSE, lastError |-> ""]

World ==
    [manager |-> manager, proxies |-> proxies, procs |-> procs,
     pools |-> pools, tasks |-> tasks, exited |-> exited]

Becomes(S) ==
    /\ manager' = S.manager
    /\ proxies' = S.proxies
    /\ procs' = S.procs
    /\ pools' = S.pools
    /\ tasks' = S.tasks
    /\ exited' = S.exited

\* the tools at rest, for the specifications of the manager and the supervisor
ToolsIdle ==
    /\ query = ""
    /\ limit = NoLimit
    /\ pc = "idle"
    /\ result = NoResult
    /\ sent = NotSent
    /\ lastIndex = FreshLastIndex
    /\ history = <<>>
    /\ tool = "none"
    /\ table = ""
    /\ dbCall = "none"
    /\ timer = "none"
    /\ replies = <<>>
    /\ response = NoResponse

\* the errors start() throws
InstanceNameError ==
    "Cloud SQL instance connection name is required. Set CLOUD_SQL_INSTANCE environment variable (format: project:region:instance)"

BinaryError == "Cloud SQL Proxy binary not found"

ExitedPrefix == "Cloud SQL Proxy exited unexpectedly"

ExitedError(exitCode, lastError) ==
    ExitedPrefix \o " (code: " \o exitCode \o "). Error: "
        \o (IF lastError # "" THEN lastError ELSE "Unknown error")

StartTimeoutError(lastError) ==
    "Cloud SQL Proxy failed to start within 30000ms."
        \o (IF lastError # "" THEN " Last error: " \o lastError ELSE "")
        \o " Check credentials and instance connection name."

SpawnError == "spawn cloud-sql-proxy ENOENT"

StderrMessage == "dial tcp: connection refused"

ProbeError == "connect ECONNREFUSED"

PoolEndError == "Pool is closed."

ConnectError == "Failed to connect to MySQL: " \o ErrorToString(ProbeError)

\* what starts the shutdown of the server (index.ts)
Events == {"SIGTERM", "SIGINT", "SIGHUP", "uncaughtException", "unhandledRejection"}

\* the code the handler of event e gives to process.exit
ExitStatus(e) == IF e \in {"SIGTERM", "SIGINT", "SIGHUP"} THEN "0" ELSE "1"

\* the server process has not exited
Serving == exited = "none"

\* the call of task t returns (outcome "ok") or throws (outcome: the message).
\* When the caller is a shutdown handler, its try/catch around
\* `await mysqlManager.close()` is left either way and process.exit runs
Finish(S, t, outcome) ==
    LET S1 == [S EXCEPT !.tasks[t].pc = "done", !.tasks[t].outcome = outcome]
    IN  IF S.tasks[t].event # "none" /\ S.exited = "none"
        THEN [S1 EXCEPT !.exited = ExitStatus(S.tasks[t].event)]
        ELSE S1

\* spawn(...) in start(): the ChildProcess object, with the locals
\* processExited and exitCode of the start() call whose handlers it carries
NewProcess(o, spawned) ==
    [owner |-> o, state |-> IF spawned THEN "running" ELSE "failing",
     listening |-> FALSE, processExited |-> FALSE, exitCode |-> "null"]

\* every start() spawns at most once
ProcIds == 1 .. MaxTasks

Alive(S, p) == p <= Len(S.procs) /\ S.procs[p].state = "running"

\* child.kill('SIGKILL'): a subprocess that is running is ended by the
\* system; its 'exit' event is delivered later
Kill(S, p) ==
    IF p # Null /\ Alive(S, p)
    THEN [S EXCEPT !.procs[p].state = "killed", !.procs[p].listening = FALSE]
    ELSE S

\* the exit code the 'exit' event reports
ExitCodes == {"1"}

\* getConnectionConfig and mysql.createPool in getConnection, up to the
\* await of the test connection
CreatePool(S, t) ==
    LET c == S.manager.cloudSqlProxy
        new == [viaProxy |-> config.enabled /\ c # Null,
                proxyRunning |-> c # Null /\ S.proxies[c].isRunning,
                state |-> "open"]
        p == Len(S.pools) + 1
    IN  [S EXCEPT !.pools = Append(@, new),
                  !.manager.pool = p,
                  !.tasks[t].pool = p,
                  !.tasks[t].pc = "probe"]

\* what follows `await this.cloudSqlProxy.start()` when start() resolves:
\* a direct call returns, getConnection goes on to create the pool
StartResolves(S, t) ==
    IF S.tasks[t].op = "start" THEN Finish(S, t, "ok") ELSE CreatePool(S, t)

\* start() throws: neither startCloudSqlProxy nor getConnection catches it
StartRejects(S, t, error) == Finish(S, t, error)

\* what follows `await ....stop()` when stop() resolves
AfterStop(S, t, after) ==
    IF after = "return" THEN Finish(S, t, "ok")
    ELSE IF after = "startTimeout"
    THEN StartRejects(S, t, StartTimeoutError(S.proxies[S.tasks[t].obj].lastError))
    ELSE LET S1 == [S EXCEPT !.manager.cloudSqlProxy = Null]
         IN  IF after = "probeFailed" THEN Finish(S1, t, ConnectError)
             ELSE Finish(S1, t, "ok")

\* stop() without the check of the handle
stop_Unguarded(S, t, o, after) ==
    [S EXCEPT !.tasks[t].pc = "stopWait",
              !.tasks[t].obj = o,
              !.tasks[t].proc = S.proxies[o].process,
              !.tasks[t].after = after]

\* CloudSQLProxy.stop() of object o up to its await
stop(S, t, o, after) ==
    LET p == S.proxies[o].process
    IN  IF p = Null THEN AfterStop(S, t, after)
        ELSE [S EXCEPT !.tasks[t].pc = "stopWait",
                       !.tasks[t].obj = o,
                       !.tasks[t].proc = p,
                       !.tasks[t].after = after]

\* MySQLManager.stopCloudSqlProxy up to its await
stopCloudSqlProxy(S, t, after) ==
    IF S.manager.cloudSqlProxy = Null THEN AfterStop(S, t, after)
    ELSE stop(S, t, S.manager.cloudSqlProxy, after)

\* start() without the check of isRunning
start_IgnoresRunning(S, t, o) ==
    LET S1 == [S EXCEPT !.tasks[t].obj = o]
    IN  IF config.instanceConnectionName = ""
        THEN StartRejects(S1, t, InstanceNameError)
        ELSE [S1 EXCEPT !.tasks[t].pc = "ensureBinary"]

\* CloudSQLProxy.start() of object o up to `await BinaryManager.ensureBinary`
start(S, t, o) ==
    LET S1 == [S EXCEPT !.tasks[t].obj = o]
    IN  IF S.proxies[o].isRunning THEN StartResolves(S1, t)
        ELSE IF config.instanceConnectionName = ""
        THEN StartRejects(S1, t, InstanceNameError)
        ELSE [S1 EXCEPT !.tasks[t].pc = "ensureBinary"]

\* MySQLManager.startCloudSqlProxy up to its await
startCloudSqlProxy(S, t) ==
    IF S.manager.cloudSqlProxy # Null THEN StartResolves(S, t)
    ELSE LET o == Len(S.proxies) + 1
         IN  start([S EXCEPT !.proxies = Append(@, NewProxy),
                             !.manager.cloudSqlProxy = o], t, o)

\* MySQLManager.getConnection up to its first await
getConnection(S, t) ==
    LET S1 == [S EXCEPT !.tasks[t].op = "getConnection",
                        !.tasks[t].first = (Len(S.pools) = 0)]
    IN  IF S.manager.pool # Null
        THEN Finish([S1 EXCEPT !.tasks[t].returned = S.manager.pool], t, "ok")
        ELSE IF config.enabled THEN startCloudSqlProxy(S1, t)
        ELSE CreatePool(S1, t)

\* MySQLManager.close up to its first await
close(S, t) ==
    LET S1 == [S EXCEPT !.tasks[t].op = "close"]
    IN  IF S.manager.pool # Null
        THEN [S1 EXCEPT !.tasks[t].pc = "poolEnd",
                        !.tasks[t].pool = S.manager.pool,
                        !.pools[S.manager.pool].state = "ended"]
        ELSE stopCloudSqlProxy(S1, t, "close")

\* the 'exit' handlers of subprocess p: the one start() installed, then the
\* one of every stop() that waits for p; each of these stop() calls resolves
RECURSIVE ResumeStops(_, _, _)
ResumeStops(S, p, t) ==
    IF t > MaxTasks THEN S
    ELSE IF S.tasks[t].pc = "stopWait" /\ S.tasks[t].proc = p
    THEN ResumeStops(AfterStop(S, t, S.tasks[t].after), p, t + 1)
    ELSE ResumeStops(S, p, t + 1)

OnExit(S, p, code) ==
    LET o == S.procs[p].owner
        S1 == [S EXCEPT !.procs[p].state = "exited",
                        !.procs[p].listening = FALSE,
                        !.procs[p].processExited = TRUE,
                        !.procs[p].exitCode = code,
                        !.proxies[o].isRunning = FALSE,
                        !.proxies[o].process = Null]
    IN  ResumeStops(S1, p, 1)

-----------------------------------------------------------------------------
(* Steps of the calls and events of the subprocesses *)

\* the calls are numbered in the order of their arrival
Arrives(t) ==
    /\ Serving
    /\ tasks[t].pc = "idle"
    /\ \A u \in 1 .. t - 1 : tasks[u].pc # "idle"

\* a call of getConnection() arrives
GetConnection(t) ==
    /\ Arrives(t)
    /\ \E S \in {getConnection(World, t)} : Becomes(S)
    /\ UNCHANGED <<config, toolVars, binVars>>

\* a call of close() arrives
Close(t) ==
    /\ Arrives(t)
    /\ \E S \in {close(World, t)} : Becomes(S)
    /\ UNCHANGED <<config, toolVars, binVars>>

\* a call of start() on the supervisor arrives
Start(t) ==
    /\ Arrives(t)
    /\ \E S \in {start([World EXCEPT !.tasks[t].op = "start"], t, 1)} : Becomes(S)
    /\ UNCHANGED <<config, toolVars, binVars>>

\* a call of stop() on the supervisor arrives
Stop(t) ==
    /\ Arrives(t)
    /\ \E S \in {stop([World EXCEPT !.tasks[t].op = "stop"], t, 1, "return")} : Becomes(S)
    /\ UNCHANGED <<config, toolVars, binVars>>

\* ensureBinary resolves: start() spawns the subprocess (the spawn itself may
\* fail, which the 'error' event reports later), installs its handlers and
\* enters the readiness loop, which awaits checkConnection
BinaryResolves(t) ==
    /\ Serving
    /\ tasks[t].pc = "ensureBinary"
    /\ \E spawned \in BOOLEAN :
         LET o == tasks[t].obj
             p == Len(procs) + 1
         IN  Becomes([World EXCEPT !.procs = Append(@, NewProcess(o, spawned)),
                                   !.proxies[o].process = p,
                                   !.tasks[t].proc = p,
                                   !.tasks[t].pc = "checkConnection"])
    /\ UNCHANGED <<config, toolVars, binVars>>

\* ensureBinary rejects: start() rejects with its error
BinaryRejects(t) ==
    /\ Serving
    /\ tasks[t].pc = "ensureBinary"
    /\ Becomes(StartRejects(World, t, BinaryError))
    /\ UNCHANGED <<config, toolVars, binVars>>

\* the socket of checkConnection is connected: something accepts connections
\* on the local port (the port is the same for every supervisor object).
\* Its 'connect' event is delivered in a later step.
CheckConnects(t) ==
    /\ Serving
    /\ tasks[t].pc = "checkConnection"
    /\ \E p \in 1 .. Len(procs) : procs[p].listening
    /\ Becomes([World EXCEPT !.tasks[t].pc = "connected"])
    /\ UNCHANGED <<config, toolVars, binVars>>

\* checkConnection resolves: true on the 'connect' event, and then start()
\* sets isRunning and returns; false on the socket's 'error' or 'timeout',
\* and start() sleeps
CheckResolves(t) ==
    /\ Serving
    /\ tasks[t].pc \in {"checkConnection", "connected"}
    /\ IF tasks[t].pc = "connected"
       THEN \E S \in {StartResolves([World EXCEPT !.proxies[tasks[t].obj].isRunning = TRUE], t)} :
                Becomes(S)
       ELSE Becomes([World EXCEPT !.tasks[t].pc = "sleep"])
    /\ UNCHANGED <<config, toolVars, binVars>>

\* the readiness loop throws the timeout error without calling stop()
SleepDone_NoStop(t) ==
    /\ Serving
    /\ tasks[t].pc = "sleep"
    /\ \E timedOut \in BOOLEAN :
         LET o == tasks[t].obj
             p == tasks[t].proc
         IN  IF timedOut
             THEN Becomes(StartRejects(World, t, StartTimeoutError(proxies[o].lastError)))
             ELSE IF procs[p].processExited
             THEN Becomes(StartRejects(World, t,
                     ExitedError(procs[p].exitCode, proxies[o].lastError)))
             ELSE Becomes([World EXCEPT !.tasks[t].pc = "checkConnection"])
    /\ UNCHANGED <<config, toolVars, binVars>>

\* the 500 ms sleep of the readiness loop ends.  The loop condition comes
\* first: after the startup timeout start() calls stop() and then throws;
\* otherwise a subprocess that has exited makes start() throw, and one that
\* has not is checked again
SleepDone(t) ==
    /\ Serving
    /\ tasks[t].pc = "sleep"
    /\ \E timedOut \in BOOLEAN :
         LET o == tasks[t].obj
             p == tasks[t].proc
         IN  IF timedOut
             THEN \E S \in {stop(World, t, o, "startTimeout")} : Becomes(S)
             ELSE IF procs[p].processExited
             THEN Becomes(StartRejects(World, t,
                     ExitedError(procs[p].exitCode, proxies[o].lastError)))
             ELSE Becomes([World EXCEPT !.tasks[t].pc = "checkConnection"])
    /\ UNCHANGED <<config, toolVars, binVars>>

\* the 5 s timer of stop() fires before the 'exit' event: SIGKILL to the
\* handle the object holds now, and stop() resolves
ForceKill(t) ==
    /\ Serving
    /\ tasks[t].pc = "stopWait"
    /\ \E S \in {AfterStop(Kill(World, proxies[tasks[t].obj].process), t, tasks[t].after)} :
         Becomes(S)
    /\ UNCHANGED <<config, toolVars, binVars>>

\* the test connection of getConnection settles: on success the pool the
\* manager holds now is returned; on failure the catch clause drops the pool,
\* stops the proxy and throws
ProbeSettles(t) ==
    /\ Serving
    /\ tasks[t].pc = "probe"
    /\ \E ok \in BOOLEAN :
         IF ok
         THEN Becomes(Finish([World EXCEPT !.tasks[t].returned = manager.pool], t, "ok"))
         ELSE \E S \in {stopCloudSqlProxy([World EXCEPT !.manager.pool = Null], t, "probeFailed")} :
                  Becomes(S)
    /\ UNCHANGED <<config, toolVars, binVars>>

\* pool.end() of close() resolves: the pool field is cleared and the proxy
\* is stopped
PoolEnded(t) ==
    /\ Serving
    /\ tasks[t].pc = "poolEnd"
    /\ \E S \in {stopCloudSqlProxy([World EXCEPT !.manager.pool = Null], t, "close")} :
         Becomes(S)
    /\ UNCHANGED <<config, toolVars, binVars>>

\* pool.end() of close() rejects: close() rejects with the error, the pool
\* field keeps the pool and the proxy is not stopped
PoolEndFails(t) ==
    /\ Serving
    /\ tasks[t].pc = "poolEnd"
    /\ Becomes(Finish(World, t, PoolEndError))
    /\ UNCHANGED <<config, toolVars, binVars>>

\* the handler of a shutdown event exits without waiting for close()
Shutdown_ExitsAtOnce(t) ==
    /\ Arrives(t)
    /\ \E e \in Events :
         \E S \in {close([World EXCEPT !.tasks[t].event = e], t)} :
            Becomes([S EXCEPT !.exited = ExitStatus(e)])
    /\ UNCHANGED <<config, toolVars, binVars>>

\* a signal, an uncaught exception or an unhandled rejection arrives: its
\* handler calls mysqlManager.close() and awaits it
Shutdown(t) ==
    /\ Arrives(t)
    /\ \E e \in Events :
         \E S \in {close([World EXCEPT !.tasks[t].event = e], t)} : Becomes(S)
    /\ UNCHANGED <<config, toolVars, binVars>>

\* the subprocess starts to accept connections on the local port
ProcListens(p) ==
    /\ Serving
    /\ Alive(World, p)
    /\ ~procs[p].listening
    /\ procs' = [procs EXCEPT ![p].listening = TRUE]
    /\ UNCHANGED <<config, manager, proxies, pools, tasks, exited, toolVars, binVars>>

\* the subprocess writes to stderr (or an error record to stdout): the
\* handler of start() stores the message in lastError of its object
ProcWrites(p) ==
    /\ Serving
    /\ Alive(World, p)
    /\ proxies[procs[p].owner].lastError # StderrMessage
    /\ proxies' = [proxies EXCEPT ![procs[p].owner].lastError = StderrMessage]
    /\ UNCHANGED <<config, manager, procs, pools, tasks, exited, toolVars, binVars>>

\* the subprocess exits, by itself or after a signal: 'exit' event
ProcExits(p) ==
    /\ Serving
    /\ p <= Len(procs)
    /\ procs[p].state \in {"running", "killed"}
    /\ \E code \in ExitCodes : \E S \in {OnExit(World, p, code)} : Becomes(S)
    /\ UNCHANGED <<config, toolVars, binVars>>

\* the spawn failed: 'error' event, and no 'exit' event follows
ProcError(p) ==
    /\ Serving
    /\ p <= Len(procs)
    /\ procs[p].state = "failing"
    /\ procs' = [procs EXCEPT ![p].state = "errored", ![p].processExited = TRUE]
    /\ proxies' = [proxies EXCEPT ![procs[p].owner].lastError = SpawnError,
                                  ![procs[p].owner].isRunning = FALSE]
    /\ UNCHANGED <<config, manager, pools, tasks, exited, toolVars, binVars>>

Internal ==
    \/ \E t \in TaskIds :
         \/ BinaryResolves(t)
         \/ BinaryRejects(t)
         \/ CheckConnects(t)
         \/ CheckResolves(t)
         \/ SleepDone(t)
         \/ ForceKill(t)
    \/ \E p \in ProcIds :
         \/ ProcListens(p)
         \/ ProcWrites(p)
         \/ ProcExits(p)
         \/ ProcError(p)

-----------------------------------------------------------------------------
(* One supervisor object and calls of start() and stop() on it (SpecProxy) *)

InitProxy ==
    /\ ToolsIdle
    /\ config \in {c \in Configs : c.enabled}
    /\ manager = [pool |-> Null, cloudSqlProxy |-> Null]
    /\ proxies = <<NewProxy>>
    /\ procs = <<>>
    /\ pools = <<>>
    /\ tasks = [t \in TaskIds |-> Idle]
    /\ exited = "none"
    /\ BinaryIdle

NextProxy ==
    \/ \E t \in TaskIds : Start(t) \/ Stop(t)
    \/ Internal

SpecProxy == InitProxy /\ [][NextProxy]_vars

-----------------------------------------------------------------------------
(* The manager and calls of getConnection() and close() (SpecManager) *)

InitManager ==
    /\ ToolsIdle
    /\ config \in Configs
    /\ manager = [pool |-> Null, cloudSqlProxy |-> Null]
    /\ proxies = <<>>
    /\ procs = <<>>
    /\ pools = <<>>
    /\ tasks = [t \in TaskIds |-> Idle]
    /\ exited = "none"
    /\ BinaryIdle

NextManager ==
    \/ \E t \in TaskIds :
         \/ GetConnection(t)
         \/ Close(t)
         \/ ProbeSettles(t)
         \/ PoolEnded(t)
         \/ PoolEndFails(t)
    \/ Internal

SpecManager == InitManager /\ [][NextManager]_vars

-----------------------------------------------------------------------------
(* The server process: calls of getConnection() and the shutdown handlers   *)
(* of index.ts (SpecShutdown)                                               *)

NextShutdown ==
    \/ \E t \in TaskIds :
         \/ GetConnection(t)
         \/ Shutdown(t)
         \/ ProbeSettles(t)
         \/ PoolEnded(t)
         \/ PoolEndFails(t)
    \/ Internal

SpecShutdown == InitManager /\ [][NextShutdown]_vars

-----------------------------------------------------------------------------
(***************************************************************************)
(* The binary resolver BinaryManager (src/src/utils/BinaryManager.ts).     *)
(*                                                                         *)
(* host is the machine; files is what the file system holds at the         *)
(* binary's final path and at its temporary sibling; requests are the      *)
(* https requests of one downloadFile call.  A request whose response was  *)
(* received and left unread (a redirect, a status other than 200) is       *)
(* "stale": nothing removes its 'error' and 'timeout' listeners, so they   *)
(* can still run.  File system calls take effect in the order in which     *)
(* they are issued; their promises settle in a later step.                 *)
(***************************************************************************)

PROXY_VERSION == "v2.14.3"

BASE_URL == "https://storage.googleapis.com/cloud-sql-connectors/cloud-sql-proxy"

Platforms == {"darwin", "linux", "win32", "freebsd"}

Archs == {"arm64", "x64", "ia32"}

Hosts == [platform : Platforms, arch : Archs]

platformMap ==
    [darwin |-> [arm64 |-> "darwin.arm64", x64 |-> "darwin.amd64"],
     linux  |-> [arm64 |-> "linux.arm64", x64 |-> "linux.amd64"],
     win32  |-> [x64 |-> "windows.amd64.exe"]]

\* what a call gives back: a value, or the error it throws
Return(v) == [ok |-> TRUE, value |-> v]

Throw(e) == [ok |-> FALSE, error |-> e]

UnsupportedPrefix == "Unsupported platform: "

UnsupportedError(h) ==
    UnsupportedPrefix \o h.platform \o "/" \o h.arch
        \o ". Cloud SQL Proxy supports darwin (arm64, x64), "
        \o "linux (arm64, x64), and win32 (x64)."

\* a lookup that falls back to the linux build for a host outside the table
getPlatformSuffix_Default(h) ==
    IF /\ h.platform \in DOMAIN platformMap
       /\ h.arch \in DOMAIN platformMap[h.platform]
    THEN Return(platformMap[h.platform][h.arch])
    ELSE Return("linux.amd64")

getPlatformSuffix(h) ==
    IF /\ h.platform \in DOMAIN platformMap
       /\ h.arch \in DOMAIN platformMap[h.platform]
    THEN Return(platformMap[h.platform][h.arch])
    ELSE Throw(UnsupportedError(h))

getDownloadUrl(h) ==
    LET suffix == getPlatformSuffix(h)
    IN  IF suffix.ok
        THEN Return(BASE_URL \o "/" \o PROXY_VERSION \o "/cloud-sql-proxy."
                        \o suffix.value)
        ELSE suffix

getDefaultInstallDir(h) ==
    IF h.platform = "win32" THEN "~/AppData/Roaming/cloudsql-proxy"
                            ELSE "~/.cloudsql-proxy"

getBinaryPath(h) ==
    getDefaultInstallDir(h) \o "/"
        \o (IF h.platform = "win32" THEN "cloud-sql-proxy.exe"
                                    ELSE "cloud-sql-proxy")

\* what can be at the final path: nothing ("absent"), a file without the
\* execute bit ("notExecutable"), an executable, or what a rename has moved
\* there ("partial", "complete"; "installed" once chmod has made a complete
\* download executable)

binaryExists(h, F) ==
    \/ F.final \in {"executable", "installed"}
    \/ h.platform = "win32" /\ F.final # "absent"

NotFoundError(h, url) ==
    "Cloud SQL Proxy binary not found at " \o getBinaryPath(h)
        \o ". Either set CLOUD_SQL_PROXY_AUTO_DOWNLOAD=true to download "
        \o "automatically, set CLOUD_SQL_PROXY_BINARY to the path of an "
        \o "existing binary, or manually download from " \o url

MkdirError == "EACCES: permission denied, mkdir"

ChmodError == "EPERM: operation not permitted, chmod"

TooManyRedirects == "Too many redirects while downloading Cloud SQL Proxy"

NoLocation == "Redirect without location header"

StatusError == "Failed to download Cloud SQL Proxy: HTTP 404"

SaveError == "Failed to save Cloud SQL Proxy binary"

WriteError == "Failed to write Cloud SQL Proxy binary"

Interrupted == "Download interrupted"

NetworkError == "Failed to download Cloud SQL Proxy: ECONNRESET"

TimedOut == "Download timed out after 30 seconds"

\* makeRequest follows a redirect only while redirectCount is at most this
RedirectLimit == 5

RequestIds == 1 .. (RedirectLimit + 1)

\* fs.unlink(tempPath), its rejection swallowed
cleanup(F) == [F EXCEPT !.temp = "absent"]

\* the executor's resolve(): downloadBinary goes on to chmod, except on win32
resolve(h, E) ==
    IF E.promise # "pending" THEN E
    ELSE IF h.platform # "win32"
         THEN [E EXCEPT !.promise = "resolved", !.pc = "chmod"]
         ELSE [E EXCEPT !.promise = "resolved", !.pc = "done",
                        !.result = Return(getBinaryPath(h))]

\* the executor's reject(): the first settlement is the one ensureBinary sees
reject(E, message) ==
    IF E.promise # "pending" THEN E
    ELSE [E EXCEPT !.promise = "rejected", !.pc = "done",
                   !.result = Throw(message)]

\* a makeRequest that follows one redirect more
makeRequest_OneMore(F, R, E, redirectCount) ==
    IF redirectCount > RedirectLimit + 1
    THEN [files |-> cleanup(F), requests |-> R,
          ensure |-> reject(E, TooManyRedirects)]
    ELSE [files |-> F, ensure |-> E,
          requests |-> Append(R, [redirectCount |-> redirectCount,
                                  state |-> "pending"])]

\* makeRequest(requestUrl, redirectCount)
makeRequest(F, R, E, redirectCount) ==
    IF redirectCount > RedirectLimit
    THEN [files |-> cleanup(F), requests |-> R,
          ensure |-> reject(E, TooManyRedirects)]
    ELSE [files |-> F, ensure |-> E,
          requests |-> Append(R, [redirectCount |-> redirectCount,
                                  state |-> "pending"])]

\* ensureBinary is called; it awaits binaryExists(finalPath)
EnsureBinary ==
    /\ ensure.pc = "idle"
    /\ ensure' = [ensure EXCEPT !.pc = "binaryExists"]
    /\ UNCHANGED <<host, files, requests, toolVars, infra>>

\* an ensureBinary that downloads a missing binary whatever autoDownload says
BinaryExistsResolves_IgnoresAutoDownload ==
    /\ ensure.pc = "binaryExists"
    /\ \E url \in {getDownloadUrl(host)} :
         IF binaryExists(host, files)
         THEN /\ ensure' = [ensure EXCEPT !.pc = "done",
                                          !.result = Return(getBinaryPath(host))]
              /\ UNCHANGED files
         ELSE IF ~url.ok
         THEN /\ ensure' = [ensure EXCEPT !.pc = "done", !.result = url]
              /\ UNCHANGED files
         ELSE /\ ensure' = [ensure EXCEPT !.pc = "mkdir"]
              /\ files' = [files EXCEPT !.mkdir = TRUE]
    /\ UNCHANGED <<host, requests, toolVars, infra>>

\* binaryExists has settled; the rest of ensureBinary runs up to the
\* await of fs.mkdir in downloadBinary
BinaryExistsResolves ==
    /\ ensure.pc = "binaryExists"
    /\ \E url \in {getDownloadUrl(host)} :
         IF binaryExists(host, files)
         THEN /\ ensure' = [ensure EXCEPT !.pc = "done",
                                          !.result = Return(getBinaryPath(host))]
              /\ UNCHANGED files
         ELSE IF ~ensure.autoDownload
         THEN /\ ensure' = [ensure EXCEPT
                    !.pc = "done",
                    !.result = IF url.ok
                               THEN Throw(NotFoundError(host, url.value))
                               ELSE url]
              /\ UNCHANGED files
         ELSE IF ~url.ok
         THEN /\ ensure' = [ensure EXCEPT !.pc = "done", !.result = url]
              /\ UNCHANGED files
         ELSE /\ ensure' = [ensure EXCEPT !.pc = "mkdir"]
              /\ files' = [files EXCEPT !.mkdir = TRUE]
    /\ UNCHANGED <<host, requests, toolVars, infra>>

\* fs.mkdir has settled; downloadFile issues its first request
MkdirSettles ==
    /\ ensure.pc = "mkdir"
    /\ \/ \E r \in {makeRequest(files, requests,
                                [ensure EXCEPT !.pc = "downloadFile",
                                               !.promise = "pending"], 0)} :
            /\ files' = r.files
            /\ requests' = r.requests
            /\ ensure' = r.ensure
       \/ /\ ensure' = [ensure EXCEPT !.pc = "done",
                                      !.result = Throw(MkdirError)]
          /\ UNCHANGED <<files, requests>>
    /\ UNCHANGED <<host, toolVars, infra>>

\* the response callback of request r runs
Respond(r) ==
    /\ r <= Len(requests)
    /\ requests[r].state = "pending"
    /\ \/ \E m \in {makeRequest(files,
                                [requests EXCEPT ![r].state = "stale"],
                                ensure, requests[r].redirectCount + 1)} :
            /\ files' = m.files
            /\ requests' = m.requests
            /\ ensure' = m.ensure
       \/ \E message \in {NoLocation, StatusError} :
            /\ files' = cleanup(files)
            /\ requests' = [requests EXCEPT ![r].state = "stale"]
            /\ ensure' = reject(ensure, message)
       \/ /\ files' = [files EXCEPT !.temp = "partial"]
          /\ requests' = [requests EXCEPT ![r].state = "streaming"]
          /\ UNCHANGED ensure
    /\ UNCHANGED <<host, toolVars, infra>>

\* the response has ended and the write stream emits 'finish': the handler
\* closes the file and awaits fs.rename(tempPath, destPath)
ResponseEnds(r) ==
    /\ r <= Len(requests)
    /\ requests[r].state = "streaming"
    /\ \/ /\ files.temp # "absent"
          /\ files' = [files EXCEPT !.final = "complete", !.temp = "absent"]
          /\ requests' = [requests EXCEPT ![r].state = "renamed"]
       \/ /\ files' = [files EXCEPT
                 !.temp = IF @ = "absent" THEN "absent" ELSE "complete"]
          /\ requests' = [requests EXCEPT ![r].state = "renameFailed"]
    /\ UNCHANGED <<host, ensure, toolVars, infra>>

\* fs.rename has settled
RenameSettles(r) ==
    /\ r <= Len(requests)
    /\ \/ /\ requests[r].state = "renamed"
          /\ ensure' = resolve(host, ensure)
          /\ UNCHANGED files
       \/ /\ requests[r].state = "renameFailed"
          /\ files' = cleanup(files)
          /\ ensure' = reject(ensure, SaveError)
    /\ requests' = [requests EXCEPT ![r].state = "closed"]
    /\ UNCHANGED <<host, toolVars, infra>>

\* the write stream emits 'error'; the response stays unread
FileError(r) ==
    /\ r <= Len(requests)
    /\ requests[r].state = "streaming"
    /\ files' = cleanup(files)
    /\ requests' = [requests EXCEPT ![r].state = "stale"]
    /\ ensure' = reject(ensure, WriteError)
    /\ UNCHANGED <<host, toolVars, infra>>

\* the response emits 'error'
ResponseError(r) ==
    /\ r <= Len(requests)
    /\ requests[r].state = "streaming"
    /\ files' = cleanup(files)
    /\ requests' = [requests EXCEPT ![r].state = "closed"]
    /\ ensure' = reject(ensure, Interrupted)
    /\ UNCHANGED <<host, toolVars, infra>>

\* request r emits 'error'
RequestError(r) ==
    /\ r <= Len(requests)
    /\ requests[r].state \in {"pending", "stale"}
    /\ files' = cleanup(files)
    /\ requests' = [requests EXCEPT ![r].state = "closed"]
    /\ ensure' = reject(ensure, NetworkError)
    /\ UNCHANGED <<host, toolVars, infra>>

\* the socket of request r has been idle for 30 seconds
RequestTimeout(r) ==
    /\ r <= Len(requests)
    /\ requests[r].state \in {"pending", "stale", "streaming"}
    /\ files' = cleanup(files)
    /\ requests' = [requests EXCEPT ![r].state = "closed"]
    /\ ensure' = reject(ensure, TimedOut)
    /\ UNCHANGED <<host, toolVars, infra>>

\* fs.chmod(destPath, 0o755) has settled
ChmodSettles ==
    /\ ensure.pc = "chmod"
    /\ \/ /\ files' = [files EXCEPT
                 !.final = IF @ = "complete" THEN "installed" ELSE @]
          /\ ensure' = [ensure EXCEPT !.pc = "done",
                                      !.result = Return(getBinaryPath(host))]
       \/ /\ ensure' = [ensure EXCEPT !.pc = "done",
                                      !.result = Throw(ChmodError)]
          /\ UNCHANGED files
    /\ UNCHANGED <<host, requests, toolVars, infra>>

InitBinary ==
    /\ ToolsIdle
    /\ InfraIdle
    /\ host \in Hosts
    /\ files \in [final : {"absent", "notExecutable", "executable"},
                  temp : {"absent"}, mkdir : {FALSE}]
    /\ requests = <<>>
    /\ ensure \in [autoDownload : BOOLEAN, pc : {"idle"}, promise : {"none"},
                   result : {"none"}]

NextBinary ==
    \/ EnsureBinary
    \/ BinaryExistsResolves
    \/ MkdirSettles
    \/ ChmodSettles
    \/ \E r \in RequestIds :
         \/ Respond(r)
         \/ ResponseEnds(r)
         \/ RenameSettles(r)
         \/ FileError(r)
         \/ ResponseError(r)
         \/ RequestError(r)
         \/ RequestTimeout(r)

SpecBinary == InitBinary /\ [][NextBinary]_vars

-----------------------------------------------------------------------------
(* Notions the properties are stated with.  They are read off the SQL text *)
(* itself, not off the sanitizer's own scans.                              *)

\* the comment-stripped, trimmed text of the query of the current call
Cleaned == Trim(removeComments(Chars(query)))

HasComment == removeComments(Chars(query)) # Chars(query)

\* cs begins with the word w in any letter case
BeginsWith(cs, w) == LitAt(cs, 1, Chars(w), {"i"})

\* cs begins with the word w, in any letter case, followed by white space
BeginsWithWord(cs, w) == BeginsWith(cs, w) /\ SpaceRun(cs, Len(w) + 1) > 0

\* cs begins with SET, white space and @
BeginsWithSetAt(cs) ==
    /\ BeginsWithWord(cs, "SET")
    /\ OccursAt(cs, 4 + SpaceRun(cs, 4), <<"@">>)

BeginsWithAllowedPrefix(cs) ==
    \/ \E w \in {"SELECT", "SHOW", "DESCRIBE", "DESC", "EXPLAIN", "WITH"} :
          BeginsWithWord(cs, w)
    \/ BeginsWithSetAt(cs)

BeginsWithMutationKeyword(cs) == \E w \in MutationHeads : BeginsWith(cs, w)

ContainsDangerous(cs) ==
    \E w \in {"INTO OUTFILE", "INTO DUMPFILE", "FOR UPDATE", "LOCK IN SHARE MODE"} :
        \E i \in 1..Len(cs) : LitAt(cs, i, Chars(w), {"i"})

\* SQL lexing of string literals: a quote opens a literal, the same quote
\* closes it, and a backslash escapes the next character inside a literal
\* only.  TRUE iff from index i on (quote: the open literal's quote, "" when
\* outside) a semicolon outside every literal is followed by more than
\* white space.
RECURSIVE StackedFrom(_, _, _)
StackedFrom(cs, i, quote) ==
    IF i > Len(cs) THEN FALSE
    ELSE IF quote = ""
         THEN IF cs[i] \in {"'", "\""} THEN StackedFrom(cs, i + 1, cs[i])
              ELSE IF cs[i] = ";" /\ \E j \in (i + 1)..Len(cs) : ~IsSpace(cs[j])
                   THEN TRUE
                   ELSE StackedFrom(cs, i + 1, "")
         ELSE IF cs[i] = "\\" THEN StackedFrom(cs, i + 2, quote)
              ELSE IF cs[i] = quote THEN StackedFrom(cs, i + 1, "")
                   ELSE StackedFrom(cs, i + 1, quote)

StackedStatements(cs) == StackedFrom(cs, 1, "")

\* the statement verbs the README lists as always rejected
MutationVerbs == {"INSERT", "UPDATE", "DELETE", "DROP", "CREATE", "ALTER", "TRUNCATE"}

Count(cs, c) == Cardinality({i \in 1..Len(cs) : cs[i] = c})

\* Index i of cs is where a statement's verb stands: at the start of the
\* text, or right after the parenthesised common table expressions of a WITH
\* clause (the text before it has then neither quotes, comment characters
\* nor semicolons, so that i lies in no literal, comment or later statement).
VerbPosition(cs, i) ==
    LET before == Trim(SubSeq(cs, 1, i - 1))
    IN  \/ before = <<>>
        \/ /\ BeginsWithWord(before, "WITH")
           /\ before[Len(before)] = ")"
           /\ Count(before, "(") = Count(before, ")")
           /\ \A k \in 1..Len(before) :
                  before[k] \notin {"'", "\"", "\\", "-", "#", "/", ";"}

\* the text has one of the listed mutation verbs as the verb of a statement
HasMutationVerb(cs) ==
    \E i \in 1..Len(cs) : \E w \in MutationVerbs :
        /\ LitAt(cs, i, Chars(w), {"i"})
        /\ SpaceRun(cs, i + Len(w)) > 0
        /\ i = 1 \/ ~IsWordChar(cs[i - 1])
        /\ VerbPosition(cs, i)

\* no SQL comment is left in cs
CommentFree(cs) ==
    /\ ~Includes(cs, <<"-", "-">>)
    /\ ~Includes(cs, <<"#">>)
    /\ ~\E i \in 1..Len(cs) : \E j \in (i + 2)..Len(cs) :
           OccursAt(cs, i, <<"/", "*">>) /\ OccursAt(cs, j, <<"*", "/">>)

AllowedPrefixMessage ==
    "Query must start with SELECT, SHOW, DESCRIBE, DESC, EXPLAIN, WITH, or SET @"

Done == pc = "done"

-----------------------------------------------------------------------------
(* Properties of one call of execute_query (specification Spec).  Each   *)
(* takes the comment-stripped, trimmed text of the query once, as c.       *)

NoMutationPattern(cs) == MutationScan(cs, 1, FreshLastIndex.mutation).hit = 0

\* C1: whenever execute_query hands a text to the database, that text has none
\* of INSERT, UPDATE, DELETE, DROP, CREATE, ALTER, TRUNCATE as the verb of a
\* statement, whatever admitted prefix the query begins with.
C1_NoMutationVerbReachesDatabase ==
    Done /\ sent # NotSent => ~HasMutationVerb(Chars(sent))

\* C2: a query whose comment-stripped, trimmed text begins, in any letter
\* case, with a mutation keyword is rejected, whatever follows the keyword.
C2_MutationKeywordRejected ==
    Done => \A c \in {Cleaned} : BeginsWithMutationKeyword(c) => ~result.isValid

\* a mutation keyword that no white space follows: no mutation pattern
\* matches it, and the allow-list rejects it
C2_KeywordWithoutSpaceRejected ==
    /\ Done
    /\ BeginsWithMutationKeyword(Cleaned)
    /\ NoMutationPattern(Cleaned)
    /\ ~result.isValid
    /\ result.error = AllowedPrefixMessage

C4_StackedStatementsRejected ==
    Done /\ StackedStatements(Cleaned) => ~result.isValid

\* C5 as stated: a query that contains, anywhere in its text and in any letter
\* case, INTO OUTFILE, INTO DUMPFILE, FOR UPDATE or LOCK IN SHARE MODE is
\* rejected.
C5_DangerousAnywhereRejected ==
    Done /\ ContainsDangerous(Chars(query)) => ~result.isValid

\* C5: a query whose comment-stripped text contains, anywhere and in any
\* letter case, INTO OUTFILE, INTO DUMPFILE, FOR UPDATE or LOCK IN SHARE MODE
\* is rejected, also when it begins with an allowed prefix.
C5_DangerousInCleanedRejected ==
    Done /\ result.isValid => ~ContainsDangerous(Cleaned)

\* a SELECT with a lower-case "for update" is rejected by the substring scan
C5_SelectForUpdateRejected ==
    /\ Done
    /\ BeginsWithWord(Cleaned, "SELECT")
    /\ Includes(Cleaned, Chars("for update"))
    /\ result.error = "Query contains dangerous keyword: FOR UPDATE"

\* C6 as stated: an admitted query begins (leading white space ignored) with
\* an allowed prefix, and a query beginning with none of them is rejected
\* with the message that lists the allowed prefixes.
C6_AllowedPrefixOfQuery ==
    Done => \A q \in {Trim(Chars(query))} :
        /\ result.isValid => BeginsWithAllowedPrefix(q)
        /\ ~BeginsWithAllowedPrefix(q)
              => ~result.isValid /\ result.error = AllowedPrefixMessage

\* C6: the comment-stripped, trimmed text of an admitted query begins with an
\* allowed prefix; a query whose comment-stripped, trimmed text is not empty,
\* matches no mutation pattern and begins with no allowed prefix is rejected
\* with the message that lists the allowed prefixes.
C6_AllowedPrefixOfCleaned ==
    Done => \A c \in {Cleaned} :
        /\ result.isValid => BeginsWithAllowedPrefix(c)
        /\ c # <<>> /\ ~BeginsWithAllowedPrefix(c) /\ NoMutationPattern(c)
              => ~result.isValid /\ result.error = AllowedPrefixMessage

\* a text that is neither a mutation nor allowed gets the fixed message
C6_NeitherMutationNorAllowed ==
    /\ Done
    /\ Cleaned # <<>>
    /\ ~BeginsWithMutationKeyword(Cleaned)
    /\ ~BeginsWithAllowedPrefix(Cleaned)
    /\ result.error = AllowedPrefixMessage

\* C7: a query beginning with SET, with no semicolon and no dangerous
\* substring, is admitted if and only if SET is followed, after white space,
\* by @.
C7_SetAdmittedIffAt ==
    Done => \A c \in {Cleaned} :
        BeginsWithWord(c, "SET") /\ ~ContainsDangerous(c) /\ Count(c, ";") = 0
          => (result.isValid <=> BeginsWithSetAt(c))

\* C8: a query that passes the other checks and whose semicolons are all
\* inside a quoted string literal or followed by white space only is valid.
C8_SemicolonInLiteralAdmitted ==
    Done => \A c \in {Cleaned} :
        c # <<>> /\ NoMutationPattern(c) /\ BeginsWithAllowedPrefix(c)
                 /\ ~ContainsDangerous(c) /\ ~StackedStatements(c)
          => result.isValid

\* C9: an invalid result has an empty sanitizedQuery and an error; a valid
\* result has a sanitizedQuery that is not empty, is trimmed and holds no SQL
\* comment.
C9_ResultInvariant ==
    Done =>
        /\ ~result.isValid => result.sanitizedQuery = "" /\ result.error # Undefined
        /\ result.isValid => \A sq \in {Chars(result.sanitizedQuery)} :
              /\ sq # <<>>
              /\ Trim(sq) = sq
              /\ CommentFree(sq)

-----------------------------------------------------------------------------
(* Properties of a series of calls of sanitize (specification SpecCalls) *)

\* C10: sanitize is a pure, deterministic function: any two calls on the same
\* input, whatever calls on other inputs were made before or between them,
\* return the same isValid, error and sanitizedQuery, and no call changes
\* the state of a static pattern object.
C10_SameInputSameResult ==
    /\ \A i, j \in DOMAIN history :
          history[i].query = history[j].query
            => history[i].result = history[j].result
    /\ lastIndex = FreshLastIndex

\* the same input was given twice, with a call on another input, matched by
\* another pattern, between the two
C10_RepeatedAroundAnother ==
    \E i, j, k \in DOMAIN history :
        /\ i < j /\ j < k
        /\ history[i].query = history[k].query
        /\ history[j].query # history[i].query
        /\ history[i].result.isValid # history[j].result.isValid

-----------------------------------------------------------------------------
(* Properties of one tool invocation (specification SpecTools) *)

\* execute_query admitted the query and handed a text to the database
Admitted == tool = "execute_query" /\ sent # NotSent

\* C11: the text handed to the database is the admitted query with " LIMIT "
\* and the cap appended exactly when the query has no numeric LIMIT clause
\* and begins with SELECT, and the admitted query unchanged otherwise; the
\* cap is input.limit when it was given and the configured default when not.
C11_CapAppendedExactlyWhen ==
    Admitted => \A sq \in {Chars(result.sanitizedQuery)} :
        LET cap == IF limit.given THEN limit.value ELSE maxRows
        IN  sent = IF ~HasLimitClause(sq) /\ BeginsWithWord(sq, "SELECT")
                   THEN result.sanitizedQuery \o " LIMIT " \o Str(NumberToString(cap))
                   ELSE result.sanitizedQuery

\* C12: a text handed to the database that begins with SELECT ends with a
\* LIMIT clause, which bounds the rows of its top-level result set.
C12_EverySelectRowLimited ==
    Admitted /\ BeginsWithWord(Chars(sent), "SELECT")
        => TrailingLimit(Chars(sent)) # {}

\* C13: in a successful response of execute_query that returns rows, the
\* truncation flag is true if and only if the number of rows equals the row
\* cap of the executed text.
C13_TruncatedIffRowsEqualCap ==
    tool = "execute_query" /\ response # NoResponse /\ "rowCount" \in DOMAIN response
        => (response.truncated <=> response.rowCount \in TrailingLimit(Chars(sent)))

\* C14: when the timer fires before the database call has settled,
\* execute_query returns the failure with the error "Query timeout", which
\* is the message of no error that mysqlManager.executeQuery rejects with;
\* when the database call settles first its outcome is returned; and
\* nothing that happens after execute_query has returned changes what it
\* returned.
C14_TimeoutOrFirstOutcome ==
    /\ [](Admitted /\ timer = "fired" /\ replies = <<>>
             => /\ response = Failure("Query timeout")
                /\ response.error \notin ExecuteQueryErrors)
    /\ [](Admitted /\ timer = "armed" /\ replies # <<>>
             => response = ExecuteQueryResponse(replies[1]))
    /\ [][response # NoResponse => response' = response]_vars

\* the abandoned database call completed with rows after the timeout was
\* returned
C14_LateCompletionAfterTimeout ==
    /\ Admitted
    /\ timer = "fired"
    /\ replies # <<>> /\ replies[1].kind = "rows"
    /\ response = Failure("Query timeout")

\* the invocation was rejected or has failed
Failed ==
    \/ tool = "execute_query" /\ pc = "done" /\ ~result.isValid
    \/ replies # <<>> /\ replies[Len(replies)].kind = "error"
    \/ response = Failure("Query timeout")

\* C15: every invocation whose database calls have settled has returned, and
\* the result of every rejected or failed invocation carries a success flag
\* that is false, a message and an error detail.
C15_FailureIsStructured ==
    /\ dbCall = "settled" => response # NoResponse
    /\ Failed /\ response # NoResponse
          => /\ {"success", "message", "error"} \subseteq DOMAIN response
             /\ response.success = FALSE

-----------------------------------------------------------------------------
(* Properties of the connection manager (specification SpecManager) *)

\* every call made so far is a getConnection that arrived before any pool
\* had been created
OnlyFirstCalls ==
    \A t \in TaskIds :
        \/ tasks[t].op = "none"
        \/ tasks[t].op = "getConnection" /\ tasks[t].first

\* C16: getConnection calls that arrive before any pool exists lead to one
\* initialization: at most one pool is created and at most one proxy
\* subprocess is spawned, however many callers there are
C16_OneInitialization ==
    OnlyFirstCalls => Len(pools) <= 1 /\ Len(procs) <= 1

\* C17: with the proxy enabled, every pool was created at a moment when the
\* manager held a supervisor whose running flag was set
C17_PoolOnlyWhileRunning ==
    config.enabled => \A p \in 1 .. Len(pools) : pools[p].proxyRunning

\* in this step the start() call of task t rejects, and the subprocess it
\* spawned has exited or has failed to spawn
RejectsAfterExit(t) ==
    /\ \/ tasks[t].pc = "sleep"
       \/ tasks[t].pc = "stopWait" /\ tasks[t].after = "startTimeout"
    /\ tasks'[t].pc = "done"
    /\ tasks'[t].outcome # "ok"
    /\ procs'[tasks[t].proc].processExited

\* C20: a start() whose subprocess exited or failed to spawn before the port
\* was reachable rejects with the error that carries the exit code and the
\* last captured error message; at that moment the supervisor holds no
\* subprocess handle, its running flag is false, and the call has created no
\* pool
C20_EarlyExitRejectsAndStops ==
    [][\A t \in TaskIds :
          RejectsAfterExit(t)
             => LET o == tasks[t].obj
                    p == tasks[t].proc
                IN  /\ tasks'[t].outcome =
                          ExitedError(procs'[p].exitCode, proxies'[o].lastError)
                    /\ proxies'[o].process = Null
                    /\ ~proxies'[o].isRunning
                    /\ tasks'[t].pool = Null]_vars

\* the call of task t has rejected with the timeout error of start()
TimedOutStart(t) ==
    /\ tasks[t].pc = "done"
    /\ tasks[t].proc # Null
    /\ tasks[t].outcome \in {StartTimeoutError(e) : e \in {"", StderrMessage, SpawnError}}

\* C21: once the timeout error of a start() has reached the caller, the
\* subprocess that start() spawned is not running: it has exited, was killed,
\* or never ran
C21_NoOrphanAfterStartTimeout ==
    \A t \in TaskIds :
        TimedOutStart(t) => procs[tasks[t].proc].state # "running"

\* a start() that timed out and whose subprocess had to be killed by force
C21_TimedOutAndKilled ==
    \E t \in TaskIds :
        TimedOutStart(t) /\ procs[tasks[t].proc].state = "killed"

\* S and T hold the same manager, supervisors, subprocesses and pools
SameObjects(S, T) ==
    /\ S.manager = T.manager
    /\ S.proxies = T.proxies
    /\ S.procs = T.procs
    /\ S.pools = T.pools

\* the call of task t has returned in S
Returned(S, t) == S.tasks[t].pc = "done" /\ S.tasks[t].outcome = "ok"

IdleTasks == {t \in TaskIds : tasks[t].pc = "idle"}

\* C23: stop() on a supervisor that holds no subprocess handle, and close()
\* on a manager that holds no pool and no supervisor, return at once and
\* leave every object as it was (no subprocess is signalled, no pool is
\* ended); a second call right after the first does the same
C23_StopAndCloseAreNoOpsWhenIdle ==
    /\ \A o \in 1 .. Len(proxies) : \A t \in IdleTasks :
          proxies[o].process = Null
             => \A S \in {stop(World, t, o, "return")} :
                   /\ Returned(S, t) /\ SameObjects(S, World)
                   /\ \A u \in IdleTasks \ {t} :
                         \A T \in {stop(S, u, o, "return")} :
                            Returned(T, u) /\ SameObjects(T, S)
    /\ \A t \in IdleTasks :
          manager.pool = Null /\ manager.cloudSqlProxy = Null
             => \A S \in {close(World, t)} :
                   /\ Returned(S, t) /\ SameObjects(S, World)
                   /\ \A u \in IdleTasks \ {t} :
                         \A T \in {close(S, u)} :
                            Returned(T, u) /\ SameObjects(T, S)

\* close() was called twice on a manager on which nothing was ever started
C23_ClosedTwiceNothingStarted ==
    /\ \A t \in {1, 2} : tasks[t].op = "close" /\ Returned(World, t)
    /\ proxies = <<>>
    /\ pools = <<>>

\* no pool, no supervisor, no subprocess running
CleanNotStarted(S) ==
    /\ S.manager.pool = Null
    /\ S.manager.cloudSqlProxy = Null
    /\ \A p \in 1 .. Len(S.procs) : S.procs[p].state # "running"

\* C24: at the moment getConnection rejects because the test connection of
\* its new pool failed, the error is the wrapped connectivity error and the
\* manager holds no pool and no supervisor, and no subprocess is running
C24_ProbeFailureRollsBack ==
    [][\A t \in TaskIds :
          (tasks[t].pool # Null /\ tasks[t].pc \in {"probe", "stopWait"}
              /\ tasks[t].op = "getConnection" /\ tasks'[t].pc = "done"
              /\ tasks'[t].outcome # "ok")
             => /\ tasks'[t].outcome = ConnectError
                /\ CleanNotStarted([manager |-> manager', procs |-> procs'])]_vars

\* in this step the getConnection call of task t rejects before it has
\* created a pool: the start of the proxy has failed
StartupFails(t) ==
    /\ tasks[t].pc # "done"
    /\ tasks'[t].pc = "done"
    /\ tasks'[t].op = "getConnection"
    /\ tasks'[t].pool = Null
    /\ tasks'[t].outcome # "ok"

\* C25: at the moment getConnection rejects because the proxy failed to
\* start, the manager holds no supervisor and no pool, and the supervisor
\* that failed holds no subprocess handle and its running flag is false
C25_StartupFailureCleansUp ==
    [][\A t \in TaskIds :
          StartupFails(t)
             => /\ manager'.cloudSqlProxy = Null
                /\ manager'.pool = Null
                /\ proxies'[tasks'[t].obj].process = Null
                /\ ~proxies'[tasks'[t].obj].isRunning]_vars

\* close() was the last call to arrive and it has completed
ClosedLast(c) ==
    /\ tasks[c].op = "close"
    /\ tasks[c].pc = "done"
    /\ \A u \in TaskIds : u > c => tasks[u].pc = "idle"

\* C26: once a close() after which no further call arrived has completed,
\* the manager holds no pool and no subprocess is running, whatever calls of
\* getConnection came before it and whether or not they had finished
C26_NothingLeftAfterClose ==
    \A c \in TaskIds :
        ClosedLast(c)
           => /\ manager.pool = Null
              /\ \A p \in 1 .. Len(procs) : procs[p].state # "running"

-----------------------------------------------------------------------------
(* Properties of the proxy supervisor (specification SpecProxy) *)

\* C18: a call of start() that arrives while the running flag is set returns
\* at once and successfully, and leaves the subprocess handle, the running
\* flag, the last error and the subprocesses as they were: no binary is
\* resolved and nothing is spawned
C18_StartWhileRunningIsNoOp ==
    [][\A t \in TaskIds :
          (tasks[t].pc = "idle" /\ tasks'[t].op = "start" /\ proxies[1].isRunning)
             => /\ tasks'[t].pc = "done"
                /\ tasks'[t].outcome = "ok"
                /\ proxies' = proxies
                /\ procs' = procs]_vars

\* a start() that returned without having spawned, on a running supervisor
C18_StartedWhileRunning ==
    \E t \in TaskIds :
        /\ tasks[t].op = "start"
        /\ tasks[t].pc = "done"
        /\ tasks[t].outcome = "ok"
        /\ tasks[t].proc = Null
        /\ proxies[1].isRunning

\* the subprocesses of supervisor o that are running
Live(o) ==
    {p \in 1 .. Len(procs) : procs[p].owner = o /\ procs[p].state = "running"}

\* C19: at any moment at most one subprocess of a supervisor is running
C19_AtMostOneLiveSubprocess ==
    \A o \in 1 .. Len(proxies) : Cardinality(Live(o)) <= 1


\* C22: at the moment a call of stop() resolves, after the exit of the
\* subprocess or after the forced kill, the supervisor holds no subprocess
\* handle and its running flag is false
C22_StoppedWhenStopResolves ==
    [][\A t \in TaskIds :
          (tasks[t].op = "stop" /\ tasks[t].pc = "stopWait" /\ tasks'[t].pc = "done")
             => /\ proxies'[1].process = Null
                /\ ~proxies'[1].isRunning]_vars


-----------------------------------------------------------------------------
(* Properties of the shutdown handlers (specification SpecShutdown) *)

\* C27: when the server process has exited, it was the handler of a signal,
\* of an uncaught exception or of an unhandled rejection that called
\* process.exit, with its code, and the close() that handler invoked had
\* settled, resolved or rejected, before
C27_ExitOnlyAfterCloseSettled ==
    exited # "none"
       => \E t \in TaskIds :
             /\ tasks[t].event \in Events
             /\ tasks[t].op = "close"
             /\ tasks[t].pc = "done"
             /\ exited = ExitStatus(tasks[t].event)

\* the server has exited after a close() that had a pool to end and rejected
C27_ExitedAfterRejectedClose ==
    /\ exited = "1"
    /\ \E t \in TaskIds :
          /\ tasks[t].event = "unhandledRejection"
          /\ tasks[t].pool # Null
          /\ tasks[t].outcome = PoolEndError


-----------------------------------------------------------------------------
(* Properties of the binary resolver (SpecBinary) *)

OutsideTable(h) ==
    \/ h.platform \notin {"darwin", "linux", "win32"}
    \/ h.arch \notin {"arm64", "x64"}
    \/ h.platform = "win32" /\ h.arch = "arm64"

\* the error e starts with 'Unsupported platform: ' and the host's
\* platform and architecture
NamesHost(e, h) ==
    \E text \in {UnsupportedPrefix \o h.platform \o "/" \o h.arch} :
        /\ Len(e) >= Len(text)
        /\ SubSeq(e, 1, Len(text)) = text

\* ensureBinary has returned and found no usable binary at the final path
EnsuredMissing == ensure.pc = "done" /\ ~binaryExists(host, files)

\* C28: on a platform/architecture pair outside the platform table,
\* getDownloadUrl throws an 'Unsupported platform' error that names the
\* platform and the architecture, ensureBinary of a missing binary fails
\* with that error, and neither fs.mkdir is called nor a request issued.
C28_UnsupportedFailsBeforeMkdirAndNetwork ==
    OutsideTable(host) =>
        /\ ~getDownloadUrl(host).ok
        /\ NamesHost(getDownloadUrl(host).error, host)
        /\ ~files.mkdir
        /\ requests = <<>>
        /\ EnsuredMissing =>
             /\ ~ensure.result.ok
             /\ NamesHost(ensure.result.error, host)

C28_UnsupportedHostFailed ==
    /\ OutsideTable(host)
    /\ EnsuredMissing
    /\ ensure.autoDownload
    /\ ~ensure.result.ok


\* the text part occurs in the string s
Mentions(s, part) ==
    \E i \in 1 .. (Len(s) - Len(part) + 1) :
        SubSeq(s, i, i + Len(part) - 1) = part

\* the step in which ensureBinary learns what binaryExists found
LearnsBinaryExists ==
    ensure.pc = "binaryExists" /\ ensure'.pc # "binaryExists"

\* the result is an error that names the expected path and the download URL
NamesPathAndUrl(r, h) ==
    /\ ~r.ok
    /\ Mentions(r.error, getBinaryPath(h))
    /\ Mentions(r.error, BASE_URL \o "/" \o PROXY_VERSION \o "/cloud-sql-proxy.")

\* a first request is issued only for a binary that is not there, with
\* auto-download enabled
DownloadsOnlyWhenMissing ==
    requests = <<>> /\ requests' # <<>> =>
        ~binaryExists(host, files) /\ ensure.autoDownload

\* an existing binary's path is returned in the same step, nothing touched
ExistingIsReturned ==
    LearnsBinaryExists /\ binaryExists(host, files) =>
        /\ ensure'.pc = "done"
        /\ ensure'.result = Return(getBinaryPath(host))
        /\ requests' = <<>>
        /\ UNCHANGED files

\* C29 as stated: ensureBinary issues a request only when the binary is
\* absent or not executable and auto-download is enabled; an existing binary's
\* path is returned at once with no request; an absent binary with
\* auto-download disabled fails, with no request, with an error naming the
\* expected path and the manual-download URL.
C29_DownloadsOnlyWhenMissingAndEnabled ==
    [][/\ DownloadsOnlyWhenMissing
       /\ ExistingIsReturned
       /\ LearnsBinaryExists /\ ~binaryExists(host, files)
             /\ ~ensure.autoDownload =>
            /\ ensure'.pc = "done"
            /\ NamesPathAndUrl(ensure'.result, host)
            /\ requests' = <<>>
            /\ UNCHANGED files]_vars

\* C29, amended: as above, the last part on a platform/architecture pair of
\* the platform table; on a pair outside the table the call fails, with no
\* request, with the 'Unsupported platform' error.
C29_DisabledFailsNamingPathOnSupportedHost ==
    [][/\ DownloadsOnlyWhenMissing
       /\ ExistingIsReturned
       /\ LearnsBinaryExists /\ ~binaryExists(host, files)
             /\ ~ensure.autoDownload =>
            /\ ensure'.pc = "done"
            /\ requests' = <<>>
            /\ UNCHANGED files
            /\ IF OutsideTable(host)
               THEN /\ ~ensure'.result.ok
                    /\ NamesHost(ensure'.result.error, host)
               ELSE NamesPathAndUrl(ensure'.result, host)]_vars

C29_DisabledAndMissingFailed ==
    /\ ~OutsideTable(host)
    /\ ~ensure.autoDownload
    /\ EnsuredMissing
    /\ NamesPathAndUrl(ensure.result, host)


\* what a rename of this download has put at the final path
Downloaded == {"partial", "complete", "installed"}

\* C30: a file appears at the final path only by the rename of the
\* temporary file after the whole response was written to it, and once
\* downloadFile has rejected no downloaded file is at the final path and no
\* temporary file exists.
C30_FinalOnlyByRenameAndFailureLeavesNothing ==
    /\ files.final # "partial"
    /\ ensure.promise = "rejected" =>
         /\ files.final \notin Downloaded
         /\ files.temp = "absent"


-----------------------------------------------------------------------------
(* Further properties of the tools (SpecTools) *)

IdentifierChars ==
    UNION {{SubSeq(s, i, i) : i \in 1 .. Len(s)} :
             s \in {"abcdefghijklmnopqrstuvwxyz", "ABCDEFGHIJKLMNOPQRSTUVWXYZ",
                    "0123456789_"}}

\* the fixed text before and after the identifier in the three statements
DescribeFrames ==
    {<<"DESCRIBE " \o Backtick, Backtick>>,
     <<"SHOW INDEX FROM " \o Backtick, Backtick>>,
     <<"SHOW TABLE STATUS LIKE '", "'">>}

\* text is a frame around an identifier made of IdentifierChars only
FramesIdentifier(text, frame) ==
    /\ Len(text) >= Len(frame[1]) + Len(frame[2])
    /\ SubSeq(text, 1, Len(frame[1])) = frame[1]
    /\ SubSeq(text, Len(text) - Len(frame[2]) + 1, Len(text)) = frame[2]
    /\ \A i \in (Len(frame[1]) + 1) .. (Len(text) - Len(frame[2])) :
          SubSeq(text, i, i) \in IdentifierChars

\* C31: every statement describe_table hands to the database is one of the
\* three metadata statements around an identifier whose characters are all
\* in [A-Za-z0-9_], whatever the table argument is.
C31_IdentifierIsWordCharsOnly ==
    tool = "describe_table" /\ sent # NotSent =>
        \E frame \in DescribeFrames : FramesIdentifier(sent, frame)

C31_InjectionArgumentDescribed ==
    /\ tool = "describe_table"
    /\ table = "x'; DROP TABLE y"
    /\ Len(replies) = 3
    /\ sent = "SHOW TABLE STATUS LIKE 'xDROPTABLEy'"


-----------------------------------------------------------------------------
(* Further properties of the proxy supervisor (SpecProxy) *)

\* subprocess p was spawned and no 'exit' event of it has been delivered
NotSeenDead(P, p) == p <= Len(P) /\ P[p].state \in {"running", "killed"}

\* supervisor o holds the handle of such a subprocess
HoldsLiveHandle(S, o) ==
    /\ S.proxies[o].process # Null
    /\ NotSeenDead(S.procs, S.proxies[o].process)

\* in this step the start() call t, which has spawned a subprocess, returns
\* normally
StartReturns(t) ==
    /\ tasks[t].op = "start"
    /\ tasks[t].pc \in {"checkConnection", "connected", "sleep"}
    /\ tasks'[t].pc = "done"
    /\ tasks'[t].outcome = "ok"

\* C32: whenever the running flag of a supervisor is true it holds the handle
\* of a subprocess that was spawned and whose 'exit' event has not been
\* delivered, and whenever a start() call that spawned a subprocess returns
\* normally, that subprocess is such a one and the supervisor holds its handle.
C32_SuccessOnlyWhileAlive ==
    /\ [](\A o \in 1 .. Len(proxies) :
            proxies[o].isRunning => HoldsLiveHandle(World, o))
    /\ [][\A t \in TaskIds :
            StartReturns(t) =>
                /\ NotSeenDead(procs', tasks[t].proc)
                /\ proxies'[tasks[t].obj].process = tasks[t].proc]_vars


-----------------------------------------------------------------------------
(* Properties of the order of the checks (SpecOrder) *)

\* pattern re, tested from the start of cs, matches
Matches(re, cs) == MatchEnd(re, 1, cs, 1) # 0

\* the members of a sequence that satisfy Test, in the order of the sequence
Keep(seq, Test(_)) == SelectSeq(seq, Test)

\* the errors the five checks raise on the text cs, each check taken by
\* itself, in the order: empty, mutation patterns in list order, allowed
\* prefix, dangerous keywords in list order, several statements
FailuresInOrder(cs) ==
    LET MutationMatches(re) == Matches(re, cs)
        KeywordOccurs(w) == Includes(ToUpperCase(cs), w)
        AsMutationError(re) == "Query contains mutation operation: " \o re.source
        AsKeywordError(w) == "Query contains dangerous keyword: " \o Str(w)
        mutations == Keep(MUTATION_PATTERNS, MutationMatches)
        keywords == Keep(DANGEROUS_KEYWORDS, KeywordOccurs)
    IN  (IF Len(cs) = 0 THEN <<"Query is empty">> ELSE <<>>)
        \o [k \in 1 .. Len(mutations) |-> AsMutationError(mutations[k])]
        \o (IF \E k \in 1 .. Len(ALLOWED_PATTERNS) : Matches(ALLOWED_PATTERNS[k], cs)
            THEN <<>>
            ELSE <<"Query must start with SELECT, SHOW, DESCRIBE, DESC, EXPLAIN, WITH, or SET @">>)
        \o [k \in 1 .. Len(keywords) |-> AsKeywordError(keywords[k])]
        \o (IF hasMultipleStatements(cs)
            THEN <<"Multiple statements are not allowed">> ELSE <<>>)

\* C33: the result of sanitize is the rejection with the error of the first
\* check, in the order empty, mutation scan, allowed prefix, dangerous
\* keywords, several statements, that fails on the comment-free trimmed text;
\* within the mutation scan the error names the first matching pattern of the
\* list; the query is admitted when no check fails.
C33_FirstFailingCheckDecides ==
    pc = "done" =>
        \E failures \in {FailuresInOrder(Trim(removeComments(Chars(query))))} :
            IF failures = <<>>
            THEN result.isValid
            ELSE result = Invalid(Head(failures))

\* a text that fails the mutation scan, the allowed-prefix requirement, the
\* dangerous-keyword scan and the statement guard at once
C33_MutationReportedFirst ==
    /\ pc = "done"
    /\ query = "DELETE FROM t FOR UPDATE; x"
    /\ Len(FailuresInOrder(Chars(query))) = 4
    /\ result.error = "Query contains mutation operation: ^\\s*DELETE\\s+"


-----------------------------------------------------------------------------
(* Further properties of the connection manager (SpecManager) *)

\* close() was never called and no liveness probe has failed
NeverClosedNorProbeFailed ==
    \A t \in TaskIds :
        /\ tasks[t].op # "close"
        /\ tasks[t].after # "probeFailed"
        /\ tasks[t].outcome # ConnectError

\* C34: when a getConnection call has returned a pool, and close() was not
\* called and no probe failed, a getConnection call made now returns at once
\* with that same pool and leaves the manager, the supervisors, the
\* subprocesses and the pools as they are (the caller of the finished call
\* stands for the later caller).
C34_LaterCallsReuseThePool ==
    \A u \in TaskIds :
        (Returned(World, u) /\ tasks[u].op = "getConnection"
            /\ NeverClosedNorProbeFailed)
           => \A S \in {getConnection(World, u)} :
                 /\ Returned(S, u)
                 /\ S.tasks[u].returned = tasks[u].returned
                 /\ SameObjects(S, World)


-----------------------------------------------------------------------------
(* Further properties of the binary resolver (SpecBinary) *)

\* the errors of downloadFile other than the two about redirects
OtherDownloadErrors ==
    {StatusError, SaveError, WriteError, Interrupted, NetworkError, TimedOut}

\* the response to request r arrives in this step, and it is not a 200
Refused(r) ==
    /\ r <= Len(requests)
    /\ requests[r].state = "pending"
    /\ requests'[r].state = "stale"

\* C35: a download issues its first request and one more for each of at most
\* 5 redirects; it fails with the 'Too many redirects' error only when a
\* sixth redirect arrives, and then no further request is issued; the error
\* for a redirect without a Location header is a different one; a redirect
\* answered to one of the first five requests leads to the next request and
\* to no failure.
C35_AtMostFiveRedirects ==
    /\ [](/\ Len(requests) <= 6
          /\ \A r \in 1 .. Len(requests) : requests[r].redirectCount = r - 1
          /\ NoLocation \notin {TooManyRedirects} \cup OtherDownloadErrors
          /\ (ensure.pc = "done" /\ ~ensure.result.ok
                /\ ensure.result.error = TooManyRedirects)
               => /\ Len(requests) = 6
                  /\ \A r \in 1 .. 6 : requests[r].state \in {"stale", "closed"})
    /\ [][\A r \in RequestIds :
            /\ (Refused(r) /\ r <= 5 /\ ensure'.promise = "pending")
                  => Len(requests') = Len(requests) + 1
            /\ (Refused(r) /\ r = 6)
                  => /\ requests' = [requests EXCEPT ![r].state = "stale"]
                     /\ ensure.promise = "pending" =>
                          /\ ~ensure'.result.ok
                          /\ ensure'.result.error \in
                               {TooManyRedirects, NoLocation, StatusError}]_vars

\* five redirects were followed and the sixth request downloaded the binary
C35_FiveRedirectsThenInstalled ==
    /\ Len(requests) = 6
    /\ ensure.promise = "resolved"
    /\ ensure.pc = "done"
    /\ ensure.result.ok
    /\ files.final = "installed"


-----------------------------------------------------------------------------
(* Properties of the index descriptors of describe_table (SpecIndexes) *)

\* C36: the index descriptors of the result have distinct names, there is
\* one for each index name among the rows, its columns are the rows of that
\* name, each once, and they stand in ascending order of their sequence in
\* the index, whatever the order of the rows in the reply.
C36_IndexesGroupedAndOrdered ==
    pc = "done" =>
        \E rows \in {replies[1].rows} : \E ds \in {response.indexes} :
            /\ \A i, j \in 1 .. Len(ds) : ds[i].name = ds[j].name => i = j
            /\ {ds[i].name : i \in 1 .. Len(ds)}
                 = {rows[k].Key_name : k \in 1 .. Len(rows)}
            /\ \A i \in 1 .. Len(ds) :
                 /\ {ds[i].columns[c] : c \in 1 .. Len(ds[i].columns)}
                      = {[column |-> rows[k].Column_name,
                          sequence |-> rows[k].Seq_in_index] :
                            k \in {n \in 1 .. Len(rows) :
                                     rows[n].Key_name = ds[i].name}}
                 /\ \A c, d \in 1 .. Len(ds[i].columns) :
                      c < d => ds[i].columns[c].sequence
                                 < ds[i].columns[d].sequence


-----------------------------------------------------------------------------
(* Further properties of execute_query (SpecTools) *)

\* C37: when the sanitizer has rejected the query, execute_query has returned
\* the rejection, and no statement was handed to mysqlManager.executeQuery, no
\* database call and no timer was started, and the manager holds no pool and
\* no supervisor and no pool or subprocess exists.
C37_RejectionTouchesNoDatabase ==
    (tool = "execute_query" /\ pc = "done" /\ ~result.isValid) =>
        /\ response = [success |-> FALSE,
                       error   |-> result.error,
                       message |-> "Query rejected: This appears to be a mutation operation. Only read-only queries are allowed."]
        /\ sent = NotSent
        /\ dbCall = "none"
        /\ timer = "none"
        /\ replies = <<>>
        /\ manager = [pool |-> Null, cloudSqlProxy |-> Null]
        /\ pools = <<>>
        /\ proxies = <<>>
        /\ procs = <<>>

C37_MutationRejectedUnsent ==
    /\ tool = "execute_query"
    /\ pc = "done"
    /\ query = "DELETE FROM t"
    /\ ~result.isValid
    /\ response.success = FALSE
    /\ sent = NotSent


\* C38: the text execute_query hands to the database, i.e. the sanitized query
\* with the LIMIT clause the Result Limiter may have appended, passes the
\* multi-statement guard: it has no semicolon outside a string literal that
\* is followed by anything but whitespace.
C38_FinalTextIsOneStatement ==
    (pc = "done" /\ result.isValid /\ sent # NotSent) =>
        ~hasMultipleStatements(Chars(sent))

-----------------------------------------------------------------------------
(* Concurrent calls of the connection manager (SpecManager) *)

\* in this step the getConnection call t returns normally
ConnectionReturns(t) ==
    /\ tasks'[t].op = "getConnection"
    /\ tasks[t].pc # "done"
    /\ tasks'[t].pc = "done"
    /\ tasks'[t].outcome = "ok"

\* C39: whenever a getConnection call returns normally, what it returns is a
\* pool (not null), and that pool has not been ended.
C39_ReturnedPoolIsLive ==
    [][\A t \in TaskIds :
          ConnectionReturns(t) =>
              /\ tasks'[t].returned # Null
              /\ pools'[tasks'[t].returned].state = "open"]_vars


-----------------------------------------------------------------------------
(* Where the error detail of a failed start() comes from (SpecProxy) *)

\* the errors of start() that carry the detail m
ErrorsWithDetail(m) ==
    {ExitedError(code, m) : code \in ExitCodes \cup {"null"}}
        \cup {StartTimeoutError(m)}

\* in this step the readiness loop of the start() call t, which waits for the
\* subprocess it spawned, throws an error that carries the detail m
StartFailsWith(t, m) ==
    /\ tasks[t].op = "start"
    /\ tasks[t].pc = "sleep"
    /\ tasks'[t].pc = "done"
    /\ tasks'[t].outcome \in ErrorsWithDetail(m)

\* C40: the detail in the error of a failed start() comes from the subprocess
\* that this start() call spawned.  Two consequences that the state shows are
\* checked: when the detail is the message of an 'error' event, the spawn of
\* this call has emitted the 'error' event; when it is a message written to
\* stderr, the spawn of this call did produce a subprocess.
C40_DetailComesFromOwnSubprocess ==
    [][\A t \in TaskIds :
          /\ StartFailsWith(t, SpawnError) =>
                procs[tasks[t].proc].state = "errored"
          /\ StartFailsWith(t, StderrMessage) =>
                procs[tasks[t].proc].state \notin {"failing", "errored"}]_vars

=============================================================================
